---- MODULE Spec2Model ----
(***************************************************************************)
(* THE-ORACLO: collection and processing pipeline.                         *)
(*                                                                         *)
(* The module holds eight specifications over one set of variables:        *)
(*   SpecCollect  the collectors' collect() (Website, RSS, API)            *)
(*   SpecSave     save_articles executions on separate connections         *)
(*   SpecProc     ProcessingManager.process_article / process_batch       *)
(*   SpecStats    analyzer backend statistics under concurrent analyses    *)
(*   SpecRules    BaseProcessor.apply_rules on one processor               *)
(*   SpecAnalyze  analyze_sentiment / extract_entities / extract_keywords  *)
(*   SpecTask     process_batch next to a stored ProcessingTask            *)
(*   SpecFunctions  is_article_link, the fallback entity spans and the     *)
(*                quality scorer applied to bounded inputs                 *)
(* Each specification moves only its own variables; SpecAnalyze also moves *)
(* the backend statistics of the processors it calls.                      *)
(***************************************************************************)
EXTENDS Integers, Sequences, FiniteSets, TLC

VARIABLES
    \* ---- collectors (news_collector/collectors.py) ----
    collectionLog,   \* CollectionLog rows, in creation order
    cpc,             \* position of the collector: "idle" or "rss_loop"
    run,             \* the current / last collect() invocation
    all_articles,    \* RSSCollector.collect local all_articles
    rssLeft,         \* feeds of self.rss_feeds not yet iterated
    nRuns,           \* collect() invocations started
    \* ---- save_articles (news_collector/collectors.py) ----
    rows,            \* committed Article rows: url -> number of rows
    rows0,           \* the committed Article rows at the start
    spc,             \* per connection: "idle", "check", "create", "exit", "done"
    todo,            \* per connection: the articles argument
    idx,             \* per connection: index of the candidate being handled
    pending,         \* per connection: uncommitted inserts, url -> number
    needs_rollback,  \* per connection: the atomic block is marked for rollback
    saved_count,     \* per connection: save_articles local saved_count
    createdOk,       \* per connection: urls whose create() returned normally
    txOutcome,       \* per connection: how the last atomic block ended
    nCalls,          \* save_articles executions started
    \* ---- processing (data_processor/processors.py) ----
    articleObj,      \* the in-memory Article objects handed to process_article
    articleRow,      \* the stored Article rows
    analysisRows,    \* stored Analysis rows
    qualityRows,     \* stored QualityScore rows
    pass,            \* the last process_article call
    batch,           \* the last process_batch call
    bpc,             \* position of process_batch: "idle" or "loop"
    batchLeft,       \* articles of the batch not yet processed
    nPasses,         \* process_article calls made
    taskRow,         \* a stored ProcessingTask row
    \* ---- backend statistics (data_processor/processors.py) ----
    backendRow,      \* stored backend record per analyzer kind
    procCopy,        \* per worker and kind: the record held by the processor
    loaded,          \* per worker: processors constructed
    nAnalyses,       \* per kind: analyses that reached the statistics update
    nLoads,          \* ProcessingManager constructions made
    \* ---- rule engine (data_processor/processors.py) ----
    engine,          \* the BaseProcessor: its pipeline and self.rules
    ar,              \* the current / last apply_rules call
    \* ---- analyzers (data_processor/processors.py) ----
    acall,           \* the analyzer call that is returning
    nACalls,         \* analyzer calls made
    \* ---- functions applied on their own ----
    fcall            \* the last application of a function: its input and result

collectVars == <<collectionLog, cpc, run, all_articles, rssLeft, nRuns>>
saveVars    == <<rows, rows0, spc, todo, idx, pending, needs_rollback, saved_count,
                 createdOk, txOutcome, nCalls>>
procVars    == <<articleObj, articleRow, analysisRows, qualityRows, pass, batch,
                 bpc, batchLeft, nPasses, taskRow>>
statsVars   == <<backendRow, procCopy, loaded, nAnalyses, nLoads>>
ruleVars    == <<engine, ar>>
analyzeVars == <<acall, nACalls>>
funVars     == <<fcall>>
vars        == <<collectVars, saveVars, procVars, statsVars, ruleVars, analyzeVars,
                 funVars>>

\* What the operations of one component leave alone.
saveLocals  == <<rows0, spc, todo, idx, pending, needs_rollback, saved_count,
                 createdOk, txOutcome, nCalls>>
CollectOnly == UNCHANGED <<saveLocals, procVars, statsVars, ruleVars, analyzeVars,
                           funVars>>
SaveOnly    == UNCHANGED <<collectVars, procVars, statsVars, ruleVars, analyzeVars,
                           funVars>>
ProcOnly    == UNCHANGED <<collectVars, saveVars, statsVars, ruleVars, analyzeVars,
                           funVars>>
StatsOnly   == UNCHANGED <<collectVars, saveVars, procVars, ruleVars, analyzeVars,
                           funVars>>
RulesOnly   == UNCHANGED <<collectVars, saveVars, procVars, statsVars, analyzeVars,
                           funVars>>
AnalyzeOnly == UNCHANGED <<collectVars, saveVars, procVars, ruleVars, funVars>>
FunOnly     == UNCHANGED <<collectVars, saveVars, procVars, statsVars, ruleVars,
                           analyzeVars>>

(***************************************************************************)
(* Bounds of the model.                                                    *)
(***************************************************************************)
MaxRuns     == 2    \* collect() invocations per behaviour
MaxFeeds    == 2    \* active feeds of an RSS source
MaxEntries  == 2    \* entries of one feed / elements of one page
MaxArticles == 2    \* largest source.max_articles tried
MaxBatch    == 2    \* length of the articles argument of save_articles
MaxCalls    == 3    \* save_articles executions per behaviour
MaxPasses   == 2    \* process_article calls per behaviour
MaxBatchLen == 2    \* length of the list given to process_batch
MaxAnalyses == 3    \* analyses that update backend statistics, per behaviour
MaxLoads    == 3    \* processors constructed, per behaviour
MaxRules    == 2    \* rows of the ProcessingRule table
MaxWords    == 2    \* words of a text given to an analyzer
MaxAnalyzerCalls == 1   \* analyzer calls per behaviour
MaxPieces   == 2    \* pieces of a content given to the quality scorer

\* Python's None: for a text, and for a nullable number (Some(x) otherwise).
None == "None"
Null == <<>>
Some(x) == <<x>>

Min(a, b) == IF a < b THEN a ELSE b

SeqsUpTo(S, n) == UNION {[1..k -> S] : k \in 0..n}

TakeN(s, n) == SubSeq(s, 1, Min(n, Len(s)))

\* The candidate a parser returns when it returns None.
NoCandidate == [title |-> "", url |-> ""]

\* "if article: articles.append(article)" over a list of parser results.
RECURSIVE SelectNotNone(_)
SelectNotNone(s) ==
    IF s = <<>> THEN <<>>
    ELSE IF Head(s) = NoCandidate THEN SelectNotNone(Tail(s))
         ELSE <<Head(s)>> \o SelectNotNone(Tail(s))

(***************************************************************************)
(* Collectors                                                              *)
(***************************************************************************)
\* The resolved links of two articles.
URLs == {"/noticia/1", "/news/2"}

\* A feed entry / API item / page element as the parsers see it: its title
\* after clean_text, its link, and whether reading one of its later fields
\* (summary, content[0], published_parsed) raises.
Entries ==
    { [title |-> "T", link |-> "/noticia/1", bad |-> FALSE],
      [title |-> "T", link |-> "/news/2", bad |-> FALSE],
      [title |-> "",  link |-> "/noticia/1", bad |-> FALSE],
      [title |-> "T", link |-> "",   bad |-> FALSE],
      [title |-> "T", link |-> "/noticia/1", bad |-> TRUE] }

Candidate(t, u) == [title |-> t, url |-> u]

\* RSSCollector.parse_rss_entry: None without a title, None without a link,
\* None when anything after that raises, else the candidate.
parse_rss_entry_any_link(e) ==
    IF e.title = "" THEN NoCandidate
    ELSE IF e.bad THEN NoCandidate
    ELSE Candidate(e.title, e.link)

parse_rss_entry(e) ==
    IF e.title = "" THEN NoCandidate
    ELSE IF e.link = "" THEN NoCandidate
    ELSE IF e.bad THEN NoCandidate
    ELSE Candidate(e.title, e.link)

\* APICollector.parse_api_item has the same shape.
parse_api_item(e) ==
    IF e.title = "" THEN NoCandidate
    ELSE IF e.link = "" THEN NoCandidate
    ELSE IF e.bad THEN NoCandidate
    ELSE Candidate(e.title, e.link)

\* WebsiteCollector.extract_article_data has the same shape.
extract_article_data(e) ==
    IF e.title = "" THEN NoCandidate
    ELSE IF e.link = "" THEN NoCandidate
    ELSE IF e.bad THEN NoCandidate
    ELSE Candidate(e.title, e.link)

\* RSSCollector.collect_from_feed: feedparser.parse may raise, which is caught
\* here and leaves the list empty; else the first max_articles entries are
\* parsed and the ones that gave a candidate are kept.
collect_from_feed(feed, max_articles) ==
    IF feed.outcome = "parse_raises" THEN <<>>
    ELSE LET s == TakeN(feed.entries, max_articles)
         IN SelectNotNone([i \in 1..Len(s) |-> parse_rss_entry(s[i])])

\* APICollector.parse_api_response on a response whose list is items.
parse_api_response(items, max_articles) ==
    LET s == TakeN(items, max_articles)
    IN SelectNotNone([i \in 1..Len(s) |-> parse_api_item(s[i])])

\* WebsiteCollector.config_extract_articles on the selected elements.
config_extract_articles(elements, max_articles) ==
    LET s == TakeN(elements, max_articles)
    IN SelectNotNone([i \in 1..Len(s) |-> extract_article_data(s[i])])

\* The attributes the collector classes define (BaseCollector and its three
\* subclasses). save_articles is a module-level function, not one of them.
CollectorAttrs ==
    {"log_collection", "clean_text", "extract_date", "collect", "parse_html",
     "auto_extract_articles", "config_extract_articles", "extract_article_data",
     "is_article_link", "collect_from_feed", "parse_rss_entry",
     "parse_api_response", "parse_api_item", "session", "source", "config",
     "headers", "rss_feeds"}

\* self.save_articles resolves only if the class defines it; otherwise the
\* attribute lookup raises AttributeError.
SelfHasSaveArticles == "save_articles" \in CollectorAttrs

\* BaseCollector.log_collection: one CollectionLog row; errors or [].
log_collection_drop_errors(log, status, articles_collected, errors) ==
    Append(log, [status |-> status,
                 articles_collected |-> articles_collected,
                 errors |-> <<>>])

log_collection(log, status, articles_collected, errors) ==
    Append(log, [status |-> status,
                 articles_collected |-> articles_collected,
                 errors |-> errors])

ResponseKinds == {"ok200", "http404", "http500", "exception"}

NoRun ==
    [kind |-> "none", primary |-> "n/a", endpoint |-> TRUE, outcome |-> "none",
     returned |-> <<>>, logsBefore |-> 0, feedsTotal |-> 0, feedsDone |-> 0,
     failedFeeds |-> 0, malformed |-> 0, expected |-> <<>>, max_articles |-> 0,
     articles |-> <<>>, hasList |-> TRUE]

\* What one save_articles call does on a single connection with nothing else
\* running: a candidate whose url is stored is skipped, the others are created.
RECURSIVE save_articles_seq(_, _)
save_articles_seq(store, arts) ==
    IF arts = <<>> THEN [store |-> store, saved_count |-> 0]
    ELSE LET u == Head(arts).url
             hit == store[u] > 0
             r == save_articles_seq(
                      IF hit THEN store ELSE [store EXCEPT ![u] = 1], Tail(arts))
         IN [store |-> r.store,
             saved_count |-> r.saved_count + (IF hit THEN 0 ELSE 1)]

\* The lines after the try block of the three collect() methods:
\*     saved_count = await self.save_articles(articles)
\*     self.log_collection('success', saved_count)
\*     return articles
\* The attribute lookup comes first; when it raises nothing is saved or logged
\* and the exception reaches the caller.  run.articles keeps the list the try
\* block built (the local articles / all_articles).
SaveLogReturn(r0, articles) ==
    IF SelfHasSaveArticles
    THEN LET r == save_articles_seq(rows, articles)
         IN /\ rows' = r.store
            /\ collectionLog' =
                   log_collection(collectionLog, "success", r.saved_count, <<>>)
            /\ run' = [r0 EXCEPT !.outcome = "returned", !.returned = articles,
                                  !.articles = articles]
    ELSE /\ rows' = rows
         /\ collectionLog' = collectionLog
         /\ run' = [r0 EXCEPT !.outcome = "raised", !.articles = articles]

InitCollect ==
    /\ collectionLog = <<>>
    /\ cpc = "idle"
    /\ run = NoRun
    /\ all_articles = <<>>
    /\ rssLeft = 0
    /\ nRuns = 0

\* The entries of a feed that are well formed, among the first n.
ValidEntries(entries, n) ==
    LET s == TakeN(entries, n)
        ok(e) == e.title # "" /\ e.link # "" /\ ~e.bad
    IN SelectNotNone([i \in 1..Len(s) |->
                        IF ok(s[i]) THEN Candidate(s[i].title, s[i].link)
                        ELSE NoCandidate])

NumMalformed(entries, n) ==
    LET s == TakeN(entries, n)
    IN Cardinality({i \in 1..Len(s) :
                      s[i].title = "" \/ s[i].link = "" \/ s[i].bad})

\* str.lower() of the hrefs and link texts of the model; the others have no
\* upper-case letter.
lower(str) ==
    CASE str = "/NEWS/9"              -> "/news/9"
      [] str = "T"                    -> "t"
      [] str = "Home"                 -> "home"
      [] str = "Nove letr"            -> "nove letr"
      [] str = "Dez letras"           -> "dez letras"
      [] str = "Sobre a empresa"      -> "sobre a empresa"
      [] str = "Homenagem ao autor"   -> "homenagem ao autor"
      [] str = "LOGIN dos assinantes" -> "login dos assinantes"
      [] str = "Long enough headline text here"
                                      -> "long enough headline text here"
      [] OTHER                        -> str

\* "keyword in str" for the lower-cased strings of the model and the keywords
\* of is_article_link.
Occurs ==
    { <<"/noticia/", "/noticia/1">>, <<"/noticia/", "/noticia/123">>,
      <<"/news/", "/news/2">>, <<"/news/", "/news/9">>,
      <<"home", "home">>, <<"home", "homenagem ao autor">>,
      <<"sobre", "/sobre">>, <<"sobre", "sobre a empresa">>,
      <<"login", "login dos assinantes">> }

In(keyword, str) == <<keyword, str>> \in Occurs

article_keywords == <<"/noticia/", "/news/", "/artigo/", "/post/", "/article/">>
nav_keywords == <<"home", "sobre", "contato", "login", "cadastro">>

\* any(keyword in str for keyword in keywords)
AnyIn(keywords, str) == \E i \in 1..Len(keywords) : In(keywords[i], str)

\* WebsiteCollector.is_article_link(href, title)
is_article_link_exclusive(href, title) ==
    IF href = "" \/ title = "" THEN FALSE
    ELSE IF AnyIn(article_keywords, lower(href)) THEN TRUE
    ELSE IF Len(title) <= 10 \/ Len(title) >= 200 THEN FALSE
    ELSE IF AnyIn(nav_keywords, lower(title)) THEN FALSE
    ELSE TRUE

is_article_link(href, title) ==
    IF href = "" \/ title = "" THEN FALSE
    ELSE IF AnyIn(article_keywords, lower(href)) THEN TRUE
    ELSE IF Len(title) < 10 \/ Len(title) > 200 THEN FALSE
    ELSE IF AnyIn(nav_keywords, lower(title)) THEN FALSE
    ELSE TRUE

\* WebsiteCollector.auto_extract_articles on the page's anchors that have an
\* href attribute (link is the href, title the stripped link text): at most
\* the first AutoLimit anchors are looked at, and an anchor that
\* is_article_link accepts becomes a candidate.
AutoLimit == 20

auto_extract_articles(anchors) ==
    LET s == TakeN(anchors, AutoLimit)
    IN SelectNotNone([i \in 1..Len(s) |->
                        IF is_article_link(s[i].link, s[i].title)
                        THEN Candidate(s[i].title, s[i].link) ELSE NoCandidate])

\* WebsiteCollector.parse_html
parse_html(hasConfig, elements, max_articles) ==
    IF ~hasConfig THEN auto_extract_articles(elements)
    ELSE config_extract_articles(elements, max_articles)

StartRun(kind, primary, endpoint, maxa) ==
    [NoRun EXCEPT !.kind = kind, !.primary = primary, !.endpoint = endpoint,
                  !.outcome = "running", !.logsBefore = Len(collectionLog),
                  !.max_articles = maxa]

\* WebsiteCollector.collect
WebsiteCollect ==
    /\ CollectOnly
    /\ cpc = "idle" /\ nRuns < MaxRuns
    /\ nRuns' = nRuns + 1
    /\ \E resp \in ResponseKinds, hasConfig \in BOOLEAN,
          elements \in SeqsUpTo(Entries, MaxEntries), maxa \in 0..MaxArticles :
         LET r0 == StartRun("website", resp, TRUE, maxa)
         IN IF resp = "exception"
            THEN \* except Exception: log_collection('error', errors=[str(e)]); return []
                 /\ collectionLog' = log_collection(collectionLog, "error", 0, <<"exc">>)
                 /\ run' = [r0 EXCEPT !.outcome = "returned", !.returned = <<>>]
                 /\ rows' = rows
            ELSE LET articles == IF resp = "ok200"
                                 THEN parse_html(hasConfig, elements, maxa)
                                 ELSE <<>>    \* only logger.error
                 IN SaveLogReturn(r0, articles)
    /\ UNCHANGED <<cpc, all_articles, rssLeft>>

\* APICollector.collect
APICollect ==
    /\ CollectOnly
    /\ cpc = "idle" /\ nRuns < MaxRuns
    /\ nRuns' = nRuns + 1
    /\ \E endpoint \in BOOLEAN, resp \in ResponseKinds, hasList \in BOOLEAN,
          items \in SeqsUpTo(Entries, MaxEntries), maxa \in 0..MaxArticles :
         LET r0 == StartRun("api", IF endpoint THEN resp ELSE "n/a", endpoint, maxa)
         IN IF ~endpoint
            THEN \* logger.error; return []
                 /\ run' = [r0 EXCEPT !.outcome = "returned", !.returned = <<>>]
                 /\ UNCHANGED <<collectionLog, rows>>
            ELSE IF resp = "exception"
            THEN /\ collectionLog' = log_collection(collectionLog, "error", 0, <<"exc">>)
                 /\ run' = [r0 EXCEPT !.outcome = "returned", !.returned = <<>>]
                 /\ rows' = rows
            ELSE LET articles == IF resp = "ok200" /\ hasList
                                 THEN parse_api_response(items, maxa)
                                 ELSE <<>>
                 IN SaveLogReturn([r0 EXCEPT !.hasList = hasList], articles)
    /\ UNCHANGED <<cpc, all_articles, rssLeft>>

FeedOutcomes == {"ok", "parse_raises", "save_raises"}

\* RSSCollector.collect, up to the feed loop: all_articles = []
RSSStart ==
    /\ CollectOnly
    /\ cpc = "idle" /\ nRuns < MaxRuns
    /\ nRuns' = nRuns + 1
    /\ \E n \in 0..MaxFeeds, maxa \in 0..MaxArticles :
         /\ rssLeft' = n
         /\ run' = [StartRun("rss", "n/a", TRUE, maxa) EXCEPT !.feedsTotal = n]
    /\ all_articles' = <<>>
    /\ cpc' = "rss_loop"
    /\ UNCHANGED <<collectionLog, rows>>

\* One iteration of "for rss_feed in self.rss_feeds": collect_from_feed, extend,
\* then rss_feed.save(), whose exception is caught and only logged to the logger.
RSSFeed ==
    /\ CollectOnly
    /\ cpc = "rss_loop" /\ rssLeft > 0
    /\ \E outcome \in FeedOutcomes, entries \in SeqsUpTo(Entries, MaxEntries) :
         LET feed == [outcome |-> outcome, entries |-> entries]
             m == run.max_articles
         IN /\ all_articles' = all_articles \o collect_from_feed(feed, m)
            /\ run' = [run EXCEPT
                   !.feedsDone = @ + 1,
                   !.failedFeeds = @ + (IF outcome = "ok" THEN 0 ELSE 1),
                   !.malformed = @ + (IF outcome = "parse_raises" THEN 0
                                      ELSE NumMalformed(entries, m)),
                   !.expected = @ \o (IF outcome = "ok"
                                      THEN ValidEntries(entries, m) ELSE <<>>)]
    /\ rssLeft' = rssLeft - 1
    /\ UNCHANGED <<collectionLog, cpc, nRuns, rows>>

\* RSSCollector.collect after the loop
RSSFinish ==
    /\ CollectOnly
    /\ cpc = "rss_loop" /\ rssLeft = 0
    /\ SaveLogReturn(run, all_articles)
    /\ cpc' = "idle"
    /\ UNCHANGED <<all_articles, rssLeft, nRuns>>

(***************************************************************************)
(* save_articles on separate database connections.                         *)
(*                                                                         *)
(* Each execution runs in its own atomic block.  A connection reads the    *)
(* committed rows and its own uncommitted ones; an insert of a url that    *)
(* another open block has inserted waits for that block to end.  A         *)
(* database error inside the block is caught by the loop's except clause,  *)
(* but it marks the block for rollback: later queries of the block raise   *)
(* and leaving the block rolls everything back.                            *)
(***************************************************************************)
Conns == {"A", "B"}

Candidates == {Candidate("T", u) : u \in URLs}

NoRows == [u \in URLs |-> 0]

\* Article.url is declared unique=True.
UrlNotUnique == FALSE
UrlUnique == TRUE

CurUrl(c) == todo[c][idx[c]].url

\* Article.objects.filter(url=...).exists() as connection c sees it.
NeverExists(c, u) == FALSE
Exists(c, u) == rows[u] + pending[c][u] > 0

\* The insert has to wait: another open block holds an uncommitted row with
\* this url under the unique index.
Blocked(c, u) == UrlUnique /\ \E d \in Conns \ {c} : pending[d][u] > 0

\* The insert violates the unique index.
Violates(c, u) == UrlUnique /\ rows[u] + pending[c][u] > 0

InitSave ==
    /\ rows \in [URLs -> {0, 1}]
    /\ rows0 = rows
    /\ spc = [c \in Conns |-> "idle"]
    /\ todo = [c \in Conns |-> <<>>]
    /\ idx = [c \in Conns |-> 1]
    /\ pending = [c \in Conns |-> NoRows]
    /\ needs_rollback = [c \in Conns |-> FALSE]
    /\ saved_count = [c \in Conns |-> 0]
    /\ createdOk = [c \in Conns |-> {}]
    /\ txOutcome = [c \in Conns |-> "none"]
    /\ nCalls = 0

\* Go on to the next element of "for article_data in articles", or leave the
\* loop.
NextCandidate(c) ==
    /\ idx' = [idx EXCEPT ![c] = @ + 1]
    /\ spc' = [spc EXCEPT ![c] = IF idx[c] + 1 > Len(todo[c]) THEN "exit" ELSE "check"]

\* save_articles is called: saved_count = 0, the atomic block is entered.
SaveBegin(c) ==
    /\ SaveOnly /\ UNCHANGED rows0
    /\ spc[c] \in {"idle", "done"} /\ nCalls < MaxCalls
    /\ nCalls' = nCalls + 1
    /\ \E arts \in SeqsUpTo(Candidates, MaxBatch) :
         /\ todo' = [todo EXCEPT ![c] = arts]
         /\ spc' = [spc EXCEPT ![c] = IF arts = <<>> THEN "exit" ELSE "check"]
    /\ idx' = [idx EXCEPT ![c] = 1]
    /\ pending' = [pending EXCEPT ![c] = NoRows]
    /\ needs_rollback' = [needs_rollback EXCEPT ![c] = FALSE]
    /\ saved_count' = [saved_count EXCEPT ![c] = 0]
    /\ createdOk' = [createdOk EXCEPT ![c] = {}]
    /\ txOutcome' = [txOutcome EXCEPT ![c] = "open"]
    /\ UNCHANGED rows

\* if Article.objects.filter(url=article_data['url']).exists(): continue
SaveCheck(c) ==
    /\ SaveOnly /\ UNCHANGED rows0
    /\ spc[c] = "check"
    /\ IF needs_rollback[c]
       THEN NextCandidate(c)          \* the query raises; except: logger.error
       ELSE IF Exists(c, CurUrl(c))
       THEN NextCandidate(c)          \* continue
       ELSE /\ spc' = [spc EXCEPT ![c] = "create"]
            /\ idx' = idx
    /\ UNCHANGED <<rows, todo, pending, needs_rollback, saved_count, createdOk,
                   txOutcome, nCalls>>

\* Article.objects.create(...); saved_count += 1
SaveCreate(c) ==
    /\ SaveOnly /\ UNCHANGED rows0
    /\ spc[c] = "create"
    /\ ~Blocked(c, CurUrl(c))
    /\ IF Violates(c, CurUrl(c))
       THEN \* IntegrityError, caught by except Exception
            /\ needs_rollback' = [needs_rollback EXCEPT ![c] = TRUE]
            /\ UNCHANGED <<pending, saved_count, createdOk>>
       ELSE /\ pending' = [pending EXCEPT ![c][CurUrl(c)] = @ + 1]
            /\ saved_count' = [saved_count EXCEPT ![c] = @ + 1]
            /\ createdOk' = [createdOk EXCEPT ![c] = @ \cup {CurUrl(c)}]
            /\ UNCHANGED needs_rollback
    /\ NextCandidate(c)
    /\ UNCHANGED <<rows, todo, txOutcome, nCalls>>

\* Two blocks wait for each other's insert: the database ends the wait of one
\* of them with an error, which the except clause catches.
SaveDeadlock(c) ==
    /\ SaveOnly /\ UNCHANGED rows0
    /\ spc[c] = "create" /\ Blocked(c, CurUrl(c))
    /\ \E d \in Conns \ {c} :
         /\ pending[d][CurUrl(c)] > 0
         /\ spc[d] = "create" /\ pending[c][CurUrl(d)] > 0
    /\ needs_rollback' = [needs_rollback EXCEPT ![c] = TRUE]
    /\ NextCandidate(c)
    /\ UNCHANGED <<rows, todo, pending, saved_count, createdOk, txOutcome, nCalls>>

\* The atomic block is left without an exception: commit, or roll back when
\* the block was marked; then return saved_count.
SaveExit(c) ==
    /\ SaveOnly /\ UNCHANGED rows0
    /\ spc[c] = "exit"
    /\ IF needs_rollback[c]
       THEN /\ rows' = rows
            /\ txOutcome' = [txOutcome EXCEPT ![c] = "rolled_back"]
       ELSE /\ rows' = [u \in URLs |-> rows[u] + pending[c][u]]
            /\ txOutcome' = [txOutcome EXCEPT ![c] = "committed"]
    /\ pending' = [pending EXCEPT ![c] = NoRows]
    /\ needs_rollback' = [needs_rollback EXCEPT ![c] = FALSE]
    /\ spc' = [spc EXCEPT ![c] = "done"]
    /\ UNCHANGED <<todo, idx, saved_count, createdOk, nCalls>>

(***************************************************************************)
(* ProcessingManager                                                       *)
(*                                                                         *)
(* Scores are kept in hundredths (0.3 is 30, 1.0 is 100) and the overall   *)
(* quality score in ten-thousandths, so that the arithmetic stays in the   *)
(* integers.                                                               *)
(***************************************************************************)
ArticleIds == {"a1", "a2"}

\* What the sentiment analyzer can return for an article's content.  The
\* analyzers are taken here by their results; what they do to the backend
\* statistics is in the last part of the module.
SentimentResults ==
    { [score |-> 30, label |-> "positive", confidence |-> 50],
      [score |-> 0,  label |-> "neutral",  confidence |-> 50] }

\* What the entity and keyword analyzers can return (the entity / keyword
\* texts, in order).
EntityLists  == { <<>>, <<"e1">> }
KeywordLists == { <<"k1">>, <<"k2", "k3">> }

AnalyzerOutputs ==
    [sentiment : SentimentResults, entities : EntityLists, keywords : KeywordLists]

\* For the quality scorer a content is the sequence of its pieces, joined by
\* single blanks.  A piece is known by its length and by what the scorer
\* counts in it: the words text.split() finds, the vowels, the runs of
\* [.!?], and which of the four accuracy patterns it holds.
RECURSIVE Rep(_, _)
Rep(str, n) == IF n = 0 THEN "" ELSE str \o Rep(str, n - 1)

\* A paragraph of 110 characters.
Paragraph == Rep("uma frase. ", 10)

Counts(words, vowels, ends, marks) ==
    [words |-> words, vowels |-> vowels, ends |-> ends, marks |-> marks]

Profile(piece) ==
    CASE piece = "bom"          -> Counts(1, 1, 0, {})
      [] piece = "crise."       -> Counts(1, 2, 1, {})
      [] piece = "  "           -> Counts(0, 0, 0, {})
      [] piece = "12/05/2024"   -> Counts(1, 0, 0, {"date", "digit"})
      [] piece = "Ana Lima"     -> Counts(2, 4, 0, {"name"})
      [] piece = "\"sim\""      -> Counts(1, 1, 0, {"quote"})
      [] piece = "constituição" -> Counts(1, 6, 0, {})
      [] piece = "<b>crise<b>"  -> Counts(1, 2, 0, {})
      [] piece = Paragraph      -> Counts(20, 40, 10, {})

RECURSIVE SumField(_, _)
SumField(content, field) ==
    IF content = <<>> THEN 0
    ELSE Profile(Head(content))[field] + SumField(Tail(content), field)

\* len(article.content)
RECURSIVE ContentLen(_)
ContentLen(content) ==
    IF content = <<>> THEN 0
    ELSE Len(Head(content))
         + (IF Tail(content) = <<>> THEN 0 ELSE 1 + ContentLen(Tail(content)))

\* re.search(pattern, article.content) for the pattern of an accuracy factor.
Holds(content, mark) == \E i \in 1..Len(content) : mark \in Profile(content[i]).marks

\* What a scoring function gives: a value in hundredths, or the
\* ZeroDivisionError of a division.
Value(v) == [raised |-> FALSE, value |-> v]
ZeroDivisionError == [raised |-> TRUE, value |-> 0]

\* 206.835 - 1.015 * (words / sentences) - 84.6 * (syllables / words), then
\* max(0.0, min(1.0, readability / 100.0)), rounded down to hundredths.
Flesch(words, sentences, syllables) ==
    IF sentences = 0 \/ words = 0 THEN ZeroDivisionError
    ELSE LET n == 206835 * sentences * words - 1015 * words * words
                  - 84600 * syllables * sentences
             readability == n \div (1000 * sentences * words)
         IN Value(IF readability < 0 THEN 0 ELSE Min(100, readability))

\* QualityProcessor.calculate_readability
calculate_readability_unguarded(content) ==
    IF content = <<>> THEN Value(0)
    ELSE Flesch(SumField(content, "words"), 1 + SumField(content, "ends"),
                SumField(content, "vowels"))

calculate_readability(content) ==
    IF content = <<>> THEN Value(0)
    ELSE LET sentences == 1 + SumField(content, "ends")
             words == SumField(content, "words")
             syllables == SumField(content, "vowels")
         IN IF sentences = 0 \/ words = 0 THEN Value(0)
            ELSE Flesch(words, sentences, syllables)

\* sum(factors) / len(factors) over factors that are 1.0 or 0.0.
MeanOf(factors) ==
    (100 * Cardinality({i \in 1..Len(factors) : factors[i]})) \div Len(factors)

\* QualityProcessor.calculate_completeness
calculate_completeness(article) ==
    MeanOf(<< article.title # "" /\ Len(article.title) > 10,
              article.content # <<>> /\ ContentLen(article.content) > 100,
              article.author # "",
              article.published_date # Null,
              article.url # "" >>)

\* QualityProcessor.calculate_accuracy
calculate_accuracy(article) ==
    MeanOf(<< Holds(article.content, "date"), Holds(article.content, "digit"),
              Holds(article.content, "name"), Holds(article.content, "quote") >>)

\* QualityProcessor.calculate_relevance: reads article.keywords and
\* article.entities.
RelevanceOf(kws, ents) ==
    ( (IF Len(kws) > 0 THEN Min(100, 10 * Len(kws)) ELSE 0)
    + (IF Len(ents) > 0 THEN Min(100, 20 * Len(ents)) ELSE 0) ) \div 2

calculate_relevance(article) == RelevanceOf(article.keywords, article.entities)

\* The weights of the overall score, in hundredths.
weights ==
    [readability |-> 20, completeness |-> 30, accuracy |-> 25, relevance |-> 25]

\* QualityProcessor.calculate_quality_score on an article with all the fields
\* the scorer reads; the overall score is in ten-thousandths.
quality_score(article) ==
    LET r == calculate_readability(article.content)
        c == calculate_completeness(article)
        acc == calculate_accuracy(article)
        rel == calculate_relevance(article)
    IN [raised |-> r.raised,
        readability |-> r.value, completeness |-> c, accuracy |-> acc,
        relevance |-> rel,
        overall_score |-> r.value * weights.readability
                          + c * weights.completeness
                          + acc * weights.accuracy + rel * weights.relevance]

\* The stored title, content, author, published_date and url of the articles.
ArticleFields ==
    [a \in ArticleIds |->
        IF a = "a1"
        THEN [title |-> "Crise no mercado", content |-> <<"<b>crise<b>">>,
              author |-> "Ana", published_date |-> Some("2024-05-12"), url |-> "/noticia/1"]
        ELSE [title |-> "Bom", content |-> <<"bom">>,
              author |-> "", published_date |-> Null, url |-> "/news/2"]]

\* The sub-scores that depend on the stored text and metadata of the article
\* alone (readability, completeness, accuracy).
ContentScores ==
    [a \in ArticleIds |->
        [readability |-> calculate_readability(ArticleFields[a].content).value,
         completeness |-> calculate_completeness(ArticleFields[a]),
         accuracy |-> calculate_accuracy(ArticleFields[a])]]

\* QualityProcessor.calculate_quality_score on the article object of a stored
\* article.
calculate_quality_score(a, article) ==
    LET c == ContentScores[a]
        rel == calculate_relevance(article)
    IN [readability |-> c.readability, completeness |-> c.completeness,
        accuracy |-> c.accuracy, relevance |-> rel,
        overall_score |-> c.readability * weights.readability
                          + c.completeness * weights.completeness
                          + c.accuracy * weights.accuracy + rel * weights.relevance]

FreshArticle ==
    [status |-> "collected", sentiment_score |-> Null, relevance_score |-> Null,
     keywords |-> <<>>, entities |-> <<>>]

\* The keys of results in the order process_article inserts them.
ResultKeys == <<"sentiment", "entities", "keywords", "quality">>

\* results['sentiment'] and results['quality'] are dicts; results['entities']
\* and results['keywords'] are lists, which have no .get.
ResultHasGet(k) == k \in {"sentiment", "quality"}

\* The loop "for analysis_type, result in results.items()" of
\* save_analysis_results: update_or_create per key, until evaluating
\* result.get raises.
RECURSIVE SaveAnalyses(_, _, _, _)
SaveAnalyses(keys, a, results, an) ==
    IF keys = <<>> THEN [raised |-> FALSE, an |-> an]
    ELSE IF ~ResultHasGet(Head(keys)) THEN [raised |-> TRUE, an |-> an]
    ELSE SaveAnalyses(Tail(keys), a, results,
            {r \in an : ~(r.article = a /\ r.analysis_type = Head(keys))}
            \cup {[article |-> a, analysis_type |-> Head(keys),
                   result |-> results[Head(keys)]]})

\* "with transaction.atomic():" inside the coroutine that the views run with
\* asyncio.run.  Entering the block needs the database connection, which
\* Django refuses in a thread with a running event loop
\* (SynchronousOnlyOperation) unless DJANGO_ALLOW_ASYNC_UNSAFE is set: the
\* deployment decides which of the two happens.
AtomicEntry == {"entered", "refused"}

\* Leaving the atomic block: an exception that leaves it rolls back what the
\* block wrote to storage; the assignments to the article object in memory
\* stay.
AtomicEndsCommitted(before, inBlock, raised) == inBlock

AtomicEnds(before, inBlock, raised) ==
    IF raised THEN [before EXCEPT !.obj = inBlock.obj] ELSE inBlock

\* ProcessingManager.save_analysis_results on the state st = [obj, row, an, q]:
\* the article object is updated first, then saved, then the Analysis rows and
\* the QualityScore row are written, all inside one atomic block.  inBlock is
\* the state as the block saw it when it was left.
save_analysis_results(st, a, results, entry) ==
    IF entry = "refused" THEN [raised |-> TRUE, st |-> st, inBlock |-> st]
    ELSE
    LET obj1 == [st.obj EXCEPT
                   ![a].sentiment_score = Some(results.sentiment.score),
                   ![a].keywords = results.keywords,
                   ![a].entities = results.entities,
                   ![a].relevance_score = Some(results.quality.overall_score),
                   ![a].status = "analyzed"]
        sa == SaveAnalyses(ResultKeys, a, results, st.an)
        inBlock == [obj |-> obj1,
                    row |-> [st.row EXCEPT ![a] = obj1[a]],
                    an |-> sa.an,
                    q |-> IF sa.raised THEN st.q
                          ELSE [st.q EXCEPT ![a] = Some(results.quality)]]
    IN [raised |-> sa.raised,
        st |-> AtomicEnds(st, inBlock, sa.raised),
        inBlock |-> inBlock]

\* article.content of the stored articles, as token sequences.
ArticleContent ==
    [a \in ArticleIds |->
        IF a = "a1" THEN <<"<b>", "crise", "<b>">> ELSE <<"bom">>]

\* ProcessingManager.process_article: the three analyzers, each called with
\* article.content, then the quality scorer on the article object as it is at
\* that point, then the save; any exception is caught and {} is returned.
process_article(st, a, out, entry) ==
    LET quality == calculate_quality_score(a, st.obj[a])
        results == [sentiment |-> out.sentiment, entities |-> out.entities,
                    keywords |-> out.keywords, quality |-> quality]
        sv == save_analysis_results(st, a, results, entry)
    IN [st |-> sv.st,
        raised |-> FALSE,
        returned |-> IF sv.raised THEN "empty" ELSE "full",
        text |-> ArticleContent[a],
        results |-> results,
        stored |-> ~sv.raised,
        inBlock |-> sv.inBlock]

ProcState == [obj |-> articleObj, row |-> articleRow, an |-> analysisRows,
              q |-> qualityRows]

NoResults ==
    [sentiment |-> [score |-> 0, label |-> "neutral", confidence |-> 0],
     entities |-> <<>>, keywords |-> <<>>,
     quality |-> [readability |-> 0, completeness |-> 0, accuracy |-> 0,
                  relevance |-> 0, overall_score |-> 0]]

\* pass.before is the article object as it was handed in, pass.written the
\* article row as the atomic block had written it when the block was left.
NoPass ==
    [article |-> None, keywords |-> <<>>, entities |-> <<>>, relevance |-> 0,
     completed |-> FALSE, returned |-> "none", stored |-> FALSE,
     text |-> <<>>, results |-> NoResults, entry |-> "none",
     before |-> FreshArticle, written |-> FreshArticle, analysesWritten |-> 0]

TaskStatuses == {"pending", "running", "completed", "failed", "cancelled"}

\* ProcessingTask.status has default 'pending'.
NewTask == [status |-> "pending"]

\* What process_batch does to a stored ProcessingTask: it builds and returns
\* its own counters and reads or writes no task.
TaskAfterBatchCompleted(row, results) ==
    [row EXCEPT !.status = IF results.errors = 0 THEN "completed" ELSE "failed"]

TaskAfterBatch(row, results) == row

NoBatch == [total |-> 0, processed |-> 0, errors |-> 0, failures |-> 0,
            state |-> "none"]

InitProc ==
    /\ articleObj = [a \in ArticleIds |-> FreshArticle]
    /\ articleRow = [a \in ArticleIds |-> FreshArticle]
    /\ analysisRows = {}
    /\ qualityRows = [a \in ArticleIds |-> Null]
    /\ pass = NoPass
    /\ batch = NoBatch
    /\ bpc = "idle"
    /\ batchLeft = <<>>
    /\ nPasses = 0

\* A ProcessingTask row as the model's default leaves it, or with any of the
\* statuses of STATUS_CHOICES.
InitTaskPending == taskRow = NewTask

InitTaskAny == taskRow \in [status : TaskStatuses]

\* The effect of one process_article call on the variables.
ApplyPass(a, out, entry) ==
    LET r == process_article(ProcState, a, out, entry)
    IN /\ articleObj' = r.st.obj
       /\ articleRow' = r.st.row
       /\ analysisRows' = r.st.an
       /\ qualityRows' = r.st.q
       /\ pass' = [article |-> a, keywords |-> out.keywords,
                   entities |-> out.entities,
                   relevance |-> r.results.quality.relevance,
                   completed |-> TRUE, returned |-> r.returned,
                   stored |-> r.stored, text |-> r.text, results |-> r.results,
                   entry |-> entry, before |-> articleObj[a],
                   written |-> r.inBlock.row[a],
                   analysesWritten |->
                       Cardinality({x \in r.inBlock.an : x.article = a})]
       /\ nPasses' = nPasses + 1

\* A view loads the article from storage (get_object, Article.objects.get, or
\* the queryset handed to process_batch).
LoadArticle(a) ==
    /\ ProcOnly
    /\ bpc = "idle"
    /\ articleObj[a] # articleRow[a]
    /\ articleObj' = [articleObj EXCEPT ![a] = articleRow[a]]
    /\ UNCHANGED <<articleRow, analysisRows, qualityRows, pass, batch, bpc,
                   batchLeft, nPasses, taskRow>>

\* process_article called on its own (ArticleViewSet.analyze, ProcessView).
ProcessArticle(a) ==
    /\ ProcOnly
    /\ bpc = "idle" /\ nPasses < MaxPasses
    /\ \E out \in AnalyzerOutputs, entry \in AtomicEntry : ApplyPass(a, out, entry)
    /\ UNCHANGED <<batch, bpc, batchLeft, taskRow>>

\* process_batch, up to the loop.
BatchStart ==
    /\ ProcOnly
    /\ bpc = "idle"
    /\ \E arts \in SeqsUpTo(ArticleIds, MaxBatchLen) :
         /\ nPasses + Len(arts) <= MaxPasses
         /\ batchLeft' = arts
         /\ batch' = [NoBatch EXCEPT !.total = Len(arts), !.state = "running"]
    /\ bpc' = "loop"
    /\ UNCHANGED <<articleObj, articleRow, analysisRows, qualityRows, pass, nPasses,
                   taskRow>>

\* One iteration of "for article in articles": process_article in a try;
\* processed += 1 when it returns, errors += 1 when it raises.
BatchItem ==
    /\ ProcOnly
    /\ bpc = "loop" /\ batchLeft # <<>>
    /\ \E out \in AnalyzerOutputs, entry \in AtomicEntry :
         LET r == process_article(ProcState, Head(batchLeft), out, entry)
         IN /\ ApplyPass(Head(batchLeft), out, entry)
            /\ batch' = [batch EXCEPT
                   !.processed = @ + (IF r.raised THEN 0 ELSE 1),
                   !.errors = @ + (IF r.raised THEN 1 ELSE 0),
                   !.failures = @ + (IF r.returned = "empty" THEN 1 ELSE 0)]
    /\ batchLeft' = Tail(batchLeft)
    /\ UNCHANGED <<bpc, taskRow>>

\* process_batch returns results.
BatchEnd ==
    /\ ProcOnly
    /\ bpc = "loop" /\ batchLeft = <<>>
    /\ batch' = [batch EXCEPT !.state = "returned"]
    /\ taskRow' = TaskAfterBatch(taskRow, batch)
    /\ bpc' = "idle"
    /\ UNCHANGED <<articleObj, articleRow, analysisRows, qualityRows, pass,
                   batchLeft, nPasses>>

(***************************************************************************)
(* Backend statistics                                                      *)
(*                                                                         *)
(* Every ProcessingManager is built by the view that serves one request    *)
(* and holds its own copy of the default SentimentModel, EntityExtractor   *)
(* and KeywordExtractor records.  An analysis updates the copy and saves   *)
(* it, which writes all fields of the record.  Processing times are kept   *)
(* in units of 1/TimeUnit so that halving stays exact.                     *)
(***************************************************************************)
Workers == {"w1", "w2"}
Kinds == {"sentiment", "entity", "keyword"}

TimeUnit == 2 ^ MaxAnalyses
Samples == {0, TimeUnit}

NewBackend == [total_processed |-> 0, avg_processing_time |-> Null]

\* "if self.model.avg_processing_time:" is the truth value of the field.
Truthy(avg) == avg # Null /\ avg # Some(0)

\* The statistics update of analyze_sentiment / extract_entities /
\* extract_keywords on the record the processor holds.
UpdateStats(rec, sample) ==
    [total_processed |-> rec.total_processed + 1,
     avg_processing_time |->
        IF Truthy(rec.avg_processing_time)
        THEN Some((rec.avg_processing_time[1] + sample) \div 2)
        ELSE Some(sample)]

TotalAnalyses == nAnalyses["sentiment"] + nAnalyses["entity"] + nAnalyses["keyword"]

InitStats ==
    /\ backendRow = [k \in Kinds |-> NewBackend]
    /\ procCopy = [w \in Workers |-> [k \in Kinds |-> NewBackend]]
    /\ loaded = [w \in Workers |-> FALSE]
    /\ nAnalyses = [k \in Kinds |-> 0]
    /\ nLoads = 0

\* ProcessingManager(): each processor loads its default active record.
Construct(w) ==
    /\ StatsOnly
    /\ nLoads < MaxLoads
    /\ nLoads' = nLoads + 1
    /\ procCopy' = [procCopy EXCEPT ![w] = backendRow]
    /\ loaded' = [loaded EXCEPT ![w] = TRUE]
    /\ UNCHANGED <<backendRow, nAnalyses>>

\* One analysis of a non-empty text by worker w's processor of kind k, from
\* the statistics update to self.model.save().
Analyze(w, k) ==
    /\ StatsOnly
    /\ loaded[w] /\ TotalAnalyses < MaxAnalyses
    /\ \E s \in Samples :
         LET rec == UpdateStats(procCopy[w][k], s)
         IN /\ procCopy' = [procCopy EXCEPT ![w][k] = rec]
            /\ backendRow' = [backendRow EXCEPT ![k] = rec]
    /\ nAnalyses' = [nAnalyses EXCEPT ![k] = @ + 1]
    /\ UNCHANGED <<loaded, nLoads>>

(***************************************************************************)
(* Rule engine (BaseProcessor)                                             *)
(*                                                                         *)
(* A text is the sequence of its tokens: words, and markup tags.  A        *)
(* regular expression is either one that does not compile, or one that     *)
(* matches the occurrences of one token.                                   *)
(***************************************************************************)
Words == {"Ana", "bom", "crise"}
Tags  == {"<b>"}

\* str.lower() of a token.
Lower(t) == IF t = "Ana" THEN "ana" ELSE t

Pat(t) == [valid |-> TRUE, token |-> t]
BadPat == [valid |-> FALSE, token |-> ""]

\* ProcessingRule.parameters with none of the keys the rule types read.
NoParams ==
    [remove_words |-> Null, remove_patterns |-> Null,
     pattern |-> Null, replacement |-> Null]

Rule(rule_type, parameters, priority, is_active) ==
    [rule_type |-> rule_type, parameters |-> parameters,
     priority |-> priority, is_active |-> is_active]

RemoveBom    == [NoParams EXCEPT !.remove_words = Some(<<"bom">>)]
CriseToBom   == [NoParams EXCEPT !.pattern = Some(Pat("crise")),
                                 !.replacement = Some("bom")]
BadReplace   == [NoParams EXCEPT !.pattern = Some(BadPat),
                                 !.replacement = Some("bom")]
RemoveThenBad == [NoParams EXCEPT !.remove_words = Some(<<"crise">>),
                                  !.remove_patterns = Some(<<BadPat>>)]

\* The ProcessingRule rows tried.
RuleRows ==
    { Rule("text_filter", RemoveBom, 1, TRUE),
      Rule("text_filter", RemoveBom, 2, TRUE),
      Rule("regex_replace", CriseToBom, 1, TRUE),
      Rule("regex_replace", CriseToBom, 2, TRUE),
      Rule("regex_replace", CriseToBom, 1, FALSE),
      Rule("html_clean", NoParams, 1, TRUE),
      Rule("regex_replace", BadReplace, 2, TRUE),
      Rule("text_filter", RemoveThenBad, 1, TRUE),
      Rule("custom", NoParams, 2, TRUE) }

\* The texts given to apply_rules.
RuleTexts ==
    { <<>>, <<"crise">>, <<"crise", "bom">>, <<"<b>", "crise", "<b>">>,
      <<"Ana", "<b>">> }

NoPipeline == [present |-> FALSE, rules |-> {}]

\* ProcessingPipeline.rules lists rule types.
Pipelines ==
    { NoPipeline,
      [present |-> TRUE,
       rules |-> {"text_filter", "regex_replace", "html_clean", "custom"}],
      [present |-> TRUE, rules |-> {"text_filter", "regex_replace"}] }

\* What a rule application gives: the text it returns, or that it raised
\* (text is then the value of its local variable when it raised).
Returned(text) == [raised |-> FALSE, text |-> text]
Raised(text)   == [raised |-> TRUE, text |-> text]

\* re.sub(rf'\b{re.escape(word)}\b', '', text, flags=re.IGNORECASE) for each
\* word of remove_words.
RECURSIVE RemoveWords(_, _)
RemoveWords(words, text) ==
    IF words = <<>> THEN text
    ELSE RemoveWords(Tail(words),
                     SelectSeq(text, LAMBDA t : Lower(t) # Lower(Head(words))))

\* re.sub(pattern, '', text) for each pattern of remove_patterns; a pattern
\* that does not compile raises re.error.
RECURSIVE RemovePatterns(_, _)
RemovePatterns(patterns, text) ==
    IF patterns = <<>> THEN Returned(text)
    ELSE IF ~Head(patterns).valid THEN Raised(text)
    ELSE RemovePatterns(Tail(patterns),
                        SelectSeq(text, LAMBDA t : t # Head(patterns).token))

\* BaseProcessor.apply_text_filter
apply_text_filter(text, parameters) ==
    LET t1 == IF parameters.remove_words # Null
              THEN RemoveWords(parameters.remove_words[1], text) ELSE text
    IN IF parameters.remove_patterns # Null
       THEN RemovePatterns(parameters.remove_patterns[1], t1)
       ELSE Returned(t1)

\* BaseProcessor.apply_regex_replace
apply_regex_replace(text, parameters) ==
    IF parameters.pattern # Null /\ parameters.replacement # Null
    THEN IF ~parameters.pattern[1].valid THEN Raised(text)
         ELSE Returned([i \in 1..Len(text) |->
                          IF text[i] = parameters.pattern[1].token
                          THEN parameters.replacement[1] ELSE text[i]])
    ELSE Returned(text)

\* BaseProcessor.clean_html: BeautifulSoup(text).get_text()
clean_html(text) == Returned(SelectSeq(text, LAMBDA t : t \notin Tags))

\* BaseProcessor.apply_rule
apply_rule(rule, text) ==
    IF rule.rule_type = "text_filter" THEN apply_text_filter(text, rule.parameters)
    ELSE IF rule.rule_type = "regex_replace"
    THEN apply_regex_replace(text, rule.parameters)
    ELSE IF rule.rule_type = "html_clean" THEN clean_html(text)
    ELSE Returned(text)

\* The body of the loop of apply_rules:
\*     try: processed_text = self.apply_rule(rule, processed_text)
\*     except Exception as e: logger.error(...)
\* gives the new processed_text, and whether an exception leaves the loop.
apply_rule_unguarded(rule, processed_text) ==
    LET r == apply_rule(rule, processed_text)
    IN [propagates |-> r.raised, processed_text |-> r.text]

try_apply_rule(rule, processed_text) ==
    LET r == apply_rule(rule, processed_text)
    IN [propagates |-> FALSE,
        processed_text |-> IF r.raised THEN processed_text ELSE r.text]

\* BaseProcessor.apply_rules as a function of self.rules and the text.
RECURSIVE apply_rules(_, _)
apply_rules(rules, text) ==
    IF rules = <<>> THEN text
    ELSE apply_rules(Tail(rules), try_apply_rule(Head(rules), text).processed_text)

\* The rows the query of BaseProcessor.__init__ selects:
\* filter(is_active=True, rule_type__in=pipeline.rules).
Selected(table, pipeline) ==
    {i \in 1..Len(table) :
        table[i].is_active /\ table[i].rule_type \in pipeline.rules}

\* .order_by('priority'): the selected rows in an order of ascending
\* priority; rows of equal priority come in the order the database gives.
OrderByPriority(table, pipeline) ==
    LET sel == Selected(table, pipeline)
        n == Cardinality(sel)
    IN { [k \in 1..n |-> table[f[k]]] :
           f \in {g \in [1..n -> sel] :
                    /\ \A j, k \in 1..n : j # k => g[j] # g[k]
                    /\ \A j, k \in 1..n :
                         j < k => table[g[j]].priority <= table[g[k]].priority} }

NoEngine == [constructed |-> FALSE, pipeline |-> NoPipeline, table |-> <<>>,
             rules |-> <<>>]

NoApply == [state |-> "none", text |-> <<>>, pos |-> 0, processed_text |-> <<>>,
            history |-> <<>>, result |-> <<>>]

InitRules ==
    /\ engine = NoEngine
    /\ ar = NoApply

\* BaseProcessor.__init__(pipeline): self.rules = [] without a pipeline, else
\* the active rules of the pipeline's rule types by priority.
NewBaseProcessor ==
    /\ RulesOnly
    /\ ~engine.constructed
    /\ \E pipeline \in Pipelines, table \in SeqsUpTo(RuleRows, MaxRules) :
         \E rules \in (IF pipeline.present THEN OrderByPriority(table, pipeline)
                       ELSE {<<>>}) :
            engine' = [constructed |-> TRUE, pipeline |-> pipeline,
                       table |-> table, rules |-> rules]
    /\ ar' = NoApply

\* apply_rules(text) is entered: processed_text = text
ApplyRulesStart ==
    /\ RulesOnly
    /\ engine.constructed /\ ar.state \in {"none", "returned"}
    /\ \E text \in RuleTexts :
         ar' = [state |-> "loop", text |-> text, pos |-> 1,
                processed_text |-> text, history |-> <<>>, result |-> <<>>]
    /\ UNCHANGED engine

\* One iteration of "for rule in self.rules".
ApplyRuleStep ==
    /\ RulesOnly
    /\ ar.state = "loop" /\ ar.pos <= Len(engine.rules)
    /\ LET rule == engine.rules[ar.pos]
           r == apply_rule(rule, ar.processed_text)
           step == try_apply_rule(rule, ar.processed_text)
       IN ar' = [ar EXCEPT
                   !.state = IF step.propagates THEN "raised" ELSE "loop",
                   !.pos = @ + 1,
                   !.processed_text = step.processed_text,
                   !.history = Append(@, [rule |-> rule,
                                          input |-> ar.processed_text,
                                          raised |-> r.raised,
                                          output |-> step.processed_text])]
    /\ UNCHANGED engine

\* return processed_text
ApplyRulesReturn ==
    /\ RulesOnly
    /\ ar.state = "loop" /\ ar.pos > Len(engine.rules)
    /\ ar' = [ar EXCEPT !.state = "returned", !.result = ar.processed_text]
    /\ UNCHANGED engine

(***************************************************************************)
(* Analyzers                                                               *)
(*                                                                         *)
(* The text given to an analyzer is a sequence of words.  A backend        *)
(* (VADER, TextBlob, spaCy, the regex extractor, TF-IDF, YAKE) is taken by *)
(* how its call ends and, when it returns, by what it returns.  Scores are *)
(* in hundredths.                                                          *)
(***************************************************************************)
AnalyzerTexts == SeqsUpTo(Words, MaxWords)

\* len() of the strings that occur as words and keywords.
TextLen(t) ==
    CASE t = "crise" -> 5
      [] t = "de" -> 2
      [] OTHER -> 3

\* word[0].isupper()
IsUpper(t) == t = "Ana"

\* The lexicons of the fallback sentiment analyzer.
positive_words ==
    {"bom", "ótimo", "excelente", "fantástico", "maravilhoso", "incrível",
     "positivo", "sucesso", "crescimento", "lucro", "ganho", "vitória"}

negative_words ==
    {"ruim", "terrível", "horrível", "péssimo", "negativo", "fracasso",
     "perda", "queda", "crise", "problema", "erro", "falha"}

\* The words of positive_words / negative_words that occur in the lowered
\* text of a word.
PositiveIn(t) == IF t = "bom" THEN {"bom"} ELSE {}
NegativeIn(t) == IF t = "crise" THEN {"crise"} ELSE {}

\* How the call of a backend ends: it returns, its library cannot be imported
\* (the backend function then returns the fallback's result itself), or it
\* raises.
LibraryTypes == {"vader", "textblob", "spacy", "tfidf", "yake"}

BackendEndsOf(type) ==
    IF type \in LibraryTypes THEN {"ok", "import_error", "raises"}
    ELSE IF type = "regex" THEN {"ok", "raises"}
    ELSE {"ok"}

\* No default active record: self.model / self.extractor is None.
NoModel == [present |-> FALSE]

SentimentModels ==
    {NoModel} \cup [present : {TRUE}, model_type : {"vader", "textblob", "custom"}]

EntityExtractors ==
    {NoModel} \cup [present : {TRUE}, extractor_type : {"spacy", "regex", "custom"},
                    entity_types : {{}, {"ORG"}, {"PERSON"}}]

KeywordSettings ==
    { [min_keyword_length |-> 3, stop_words |-> {}, max_keywords |-> 10],
      [min_keyword_length |-> 4, stop_words |-> {}, max_keywords |-> 10],
      [min_keyword_length |-> 3, stop_words |-> {"crise"}, max_keywords |-> 1] }

KeywordExtractors ==
    {NoModel} \cup
    { [present |-> TRUE, extractor_type |-> t,
       min_keyword_length |-> s.min_keyword_length, stop_words |-> s.stop_words,
       max_keywords |-> s.max_keywords] :
         t \in {"tfidf", "yake", "custom"}, s \in KeywordSettings }

\* What an analyzer call gives its caller, and how far the statistics update
\* got: "none", "memory" (the processor's record was updated, save raised) or
\* "saved".
Gives(result, stats) == [raised |-> FALSE, result |-> result, stats |-> stats]

\* "except Exception as e:" around the backend call and the statistics
\* update, for an exception of the backend or of save().
HandlerCatchesBackendOnly(exc) == exc = "backend"
HandlerCatches(exc) == exc \in {"backend", "save"}

\* The except clause: logger.error, return the fallback's result.
OnException(exc, fallback, stats) ==
    [raised |-> ~HandlerCatches(exc), result |-> fallback, stats |-> stats]

\* What a backend function gives: a result, or an exception.
Done(result) == [raised |-> FALSE, result |-> result]
Throws == [raised |-> TRUE, result |-> <<>>]

Abs(x) == IF x < 0 THEN 0 - x ELSE x

Sentiment(score, label, confidence) ==
    [score |-> score, label |-> label, confidence |-> confidence]

\* SentimentProcessor._fallback_sentiment
fallback_sentiment_ties_positive(text) ==
    LET positive_count ==
            Cardinality(UNION {PositiveIn(Lower(text[i])) : i \in 1..Len(text)})
        negative_count ==
            Cardinality(UNION {NegativeIn(Lower(text[i])) : i \in 1..Len(text)})
    IN IF positive_count >= negative_count THEN Sentiment(30, "positive", 50)
       ELSE Sentiment(0 - 30, "negative", 50)

fallback_sentiment(text) ==
    LET positive_count ==
            Cardinality(UNION {PositiveIn(Lower(text[i])) : i \in 1..Len(text)})
        negative_count ==
            Cardinality(UNION {NegativeIn(Lower(text[i])) : i \in 1..Len(text)})
    IN IF positive_count > negative_count THEN Sentiment(30, "positive", 50)
       ELSE IF negative_count > positive_count THEN Sentiment(0 - 30, "negative", 50)
       ELSE Sentiment(0, "neutral", 50)

\* SentimentProcessor._analyze_vader, compound being the score VADER gives.
analyze_vader(text, backend, compound) ==
    IF backend = "import_error" THEN Done(fallback_sentiment(text))
    ELSE IF backend = "raises" THEN Throws
    ELSE Done(Sentiment(compound,
                        IF compound >= 5 THEN "positive"
                        ELSE IF compound <= 0 - 5 THEN "negative" ELSE "neutral",
                        Abs(compound)))

\* SentimentProcessor._analyze_textblob, polarity being what TextBlob gives.
analyze_textblob(text, backend, polarity) ==
    IF backend = "import_error" THEN Done(fallback_sentiment(text))
    ELSE IF backend = "raises" THEN Throws
    ELSE Done(Sentiment(polarity,
                        IF polarity > 0 THEN "positive"
                        ELSE IF polarity < 0 THEN "negative" ELSE "neutral",
                        Abs(polarity)))

\* SentimentProcessor.analyze_sentiment
analyze_sentiment_unchecked(model, text, backend, save_ok, data) ==
    IF ~model.present THEN Gives(fallback_sentiment(text), "none")
    ELSE LET tried ==
                 IF model.model_type = "vader" THEN analyze_vader(text, backend, data)
                 ELSE IF model.model_type = "textblob"
                 THEN analyze_textblob(text, backend, data)
                 ELSE Done(fallback_sentiment(text))
         IN IF tried.raised
            THEN OnException("backend", fallback_sentiment(text), "none")
            ELSE IF ~save_ok
            THEN OnException("save", fallback_sentiment(text), "memory")
            ELSE Gives(tried.result, "saved")

analyze_sentiment(model, text, backend, save_ok, data) ==
    IF text = <<>> THEN Gives(Sentiment(0, "neutral", 0), "none")
    ELSE IF ~model.present THEN Gives(fallback_sentiment(text), "none")
    ELSE LET tried ==
                 IF model.model_type = "vader" THEN analyze_vader(text, backend, data)
                 ELSE IF model.model_type = "textblob"
                 THEN analyze_textblob(text, backend, data)
                 ELSE Done(fallback_sentiment(text))
         IN IF tried.raised
            THEN OnException("backend", fallback_sentiment(text), "none")
            ELSE IF ~save_ok
            THEN OnException("save", fallback_sentiment(text), "memory")
            ELSE Gives(tried.result, "saved")

Entity(text, type) == [text |-> text, type |-> type]

\* EntityProcessor._fallback_entities, from the i-th word on: a capitalised
\* word of more than two characters followed by a capitalised word.
RECURSIVE FallbackEntitiesFrom(_, _)
FallbackEntitiesFrom(words, i) ==
    IF i > Len(words) THEN <<>>
    ELSE (IF /\ IsUpper(words[i]) /\ TextLen(words[i]) > 2
             /\ i + 1 <= Len(words) /\ IsUpper(words[i + 1])
          THEN <<Entity(<<words[i], words[i + 1]>>, "PERSON")>>
          ELSE <<>>) \o FallbackEntitiesFrom(words, i + 1)

fallback_entities(text) == FallbackEntitiesFrom(text, 1)

\* The filter by self.extractor.entity_types, applied when the list is not
\* empty.
FilterEntities(extractor, entities) ==
    IF extractor.entity_types # {}
    THEN SelectSeq(entities, LAMBDA e : e.type \in extractor.entity_types)
    ELSE entities

\* EntityProcessor._extract_spacy_entities, found being what spaCy finds.
extract_spacy_entities(text, backend, found) ==
    IF backend = "import_error" THEN Done(fallback_entities(text))
    ELSE IF backend = "raises" THEN Throws
    ELSE Done(found)

\* EntityProcessor._extract_regex_entities, found being the matches.
extract_regex_entities(text, backend, found) ==
    IF backend = "raises" THEN Throws ELSE Done(found)

\* EntityProcessor.extract_entities
extract_entities(extractor, text, backend, save_ok, data) ==
    IF text = <<>> THEN Gives(<<>>, "none")
    ELSE IF ~extractor.present THEN Gives(fallback_entities(text), "none")
    ELSE LET tried ==
                 IF extractor.extractor_type = "spacy"
                 THEN extract_spacy_entities(text, backend, data)
                 ELSE IF extractor.extractor_type = "regex"
                 THEN extract_regex_entities(text, backend, data)
                 ELSE Done(fallback_entities(text))
         IN IF tried.raised
            THEN OnException("backend", fallback_entities(text), "none")
            ELSE IF ~save_ok
            THEN OnException("save", fallback_entities(text), "memory")
            ELSE Gives(FilterEntities(extractor, tried.result), "saved")

Keyword(text, score) == [text |-> text, score |-> score]

\* The first occurrences of the elements of a list, in order (the keys of
\* word_freq).
RECURSIVE Distinct(_)
Distinct(s) ==
    IF s = <<>> THEN <<>>
    ELSE <<Head(s)>> \o Distinct(SelectSeq(Tail(s), LAMBDA x : x # Head(s)))

\* list.sort(key=score, reverse=True): stable, by descending score.
RECURSIVE SortByScore(_)
SortByScore(s) ==
    IF s = <<>> THEN <<>>
    ELSE LET rest == SortByScore(Tail(s))
             before == SelectSeq(rest, LAMBDA k : k.score > Head(s).score)
             after == SelectSeq(rest, LAMBDA k : k.score <= Head(s).score)
         IN before \o <<Head(s)>> \o after

\* KeywordProcessor._fallback_keywords: the lowered words of at least three
\* characters that occur more than once, with their share of the words.
fallback_keywords(text) ==
    LET words == [i \in 1..Len(text) |-> Lower(text[i])]
        counted == SelectSeq(words, LAMBDA w : TextLen(w) >= 3)
        freq(w) == Cardinality({i \in 1..Len(counted) : counted[i] = w})
        keys == SelectSeq(Distinct(counted), LAMBDA w : freq(w) > 1)
    IN SortByScore([i \in 1..Len(keys) |->
                      Keyword(keys[i], (100 * freq(keys[i])) \div Len(words))])

\* The filters of extract_keywords: minimum length, stop words, max_keywords.
FilterKeywords(extractor, keywords) ==
    LET long == SelectSeq(keywords,
                          LAMBDA k : TextLen(k.text) >= extractor.min_keyword_length)
        kept == IF extractor.stop_words # {}
                THEN SelectSeq(long, LAMBDA k : Lower(k.text) \notin extractor.stop_words)
                ELSE long
    IN TakeN(kept, extractor.max_keywords)

\* KeywordProcessor._extract_tfidf_keywords and _extract_yake_keywords, found
\* being the backend's list (by descending score).
extract_backend_keywords(text, backend, found) ==
    IF backend = "import_error" THEN Done(fallback_keywords(text))
    ELSE IF backend = "raises" THEN Throws
    ELSE Done(found)

\* KeywordProcessor.extract_keywords
extract_keywords(extractor, text, backend, save_ok, data) ==
    IF text = <<>> THEN Gives(<<>>, "none")
    ELSE IF ~extractor.present THEN Gives(fallback_keywords(text), "none")
    ELSE LET tried ==
                 IF extractor.extractor_type \in {"tfidf", "yake"}
                 THEN extract_backend_keywords(text, backend, data)
                 ELSE Done(fallback_keywords(text))
         IN IF tried.raised
            THEN OnException("backend", fallback_keywords(text), "none")
            ELSE IF ~save_ok
            THEN OnException("save", fallback_keywords(text), "memory")
            ELSE Gives(FilterKeywords(extractor, tried.result), "saved")

\* What the backends can return.
BackendScores == {0 - 50, 3, 60}

BackendEntities ==
    { <<>>, <<Entity(<<"Ana">>, "PERSON"), Entity(<<"crise">>, "ORG")>> }

BackendKeywords ==
    { <<>>, <<Keyword("crise", 90), Keyword("de", 50), Keyword("bom", 40)>> }

\* The type of the configured backend.
TypeOf(k, cfg) == IF k = "sentiment" THEN cfg.model_type ELSE cfg.extractor_type

\* The try block is entered.
Tries(cfg, text) == cfg.present /\ text # <<>>

\* The ways a call with this backend and text can go: how the backend ends,
\* whether save() succeeds, and what the backend returns;
\* results are the values the backend can return, nothing stands for its
\* value when it does not return one.
Courses(k, cfg, text, results, nothing) ==
    IF ~Tries(cfg, text)
    THEN {[backend |-> "ok", save_ok |-> TRUE, data |-> nothing]}
    ELSE UNION { { [backend |-> b, save_ok |-> s, data |-> d] :
                     s \in BOOLEAN,
                     d \in (IF b = "ok" /\ TypeOf(k, cfg) # "custom"
                            THEN results ELSE {nothing}) } :
                 b \in BackendEndsOf(TypeOf(k, cfg)) }

NoCall ==
    [kind |-> "none", text |-> <<>>, cfg |-> NoModel, backend |-> "ok",
     save_ok |-> TRUE, data |-> <<>>, raised |-> FALSE, result |-> <<>>]

InitAnalyze ==
    /\ acall = NoCall
    /\ nACalls = 0

\* The statistics update of a call on the record worker w's processor of
\* kind k holds, and the save of that record.
ApplyStats(w, k, stats, sample) ==
    LET rec == UpdateStats(procCopy[w][k], sample)
    IN /\ procCopy' = IF stats = "none" THEN procCopy
                      ELSE [procCopy EXCEPT ![w][k] = rec]
       /\ backendRow' = IF stats = "saved" THEN [backendRow EXCEPT ![k] = rec]
                        ELSE backendRow
       /\ nAnalyses' = IF stats = "none" THEN nAnalyses
                       ELSE [nAnalyses EXCEPT ![k] = @ + 1]

\* The call record of a call of kind k that gave r.
CallOf(k, cfg, text, c, r) ==
    [kind |-> k, text |-> text, cfg |-> cfg, backend |-> c.backend,
     save_ok |-> c.save_ok, data |-> c.data, raised |-> r.raised,
     result |-> r.result]

\* analyze_sentiment(text) on worker w's SentimentProcessor, up to its return
\* statement.
CallSentiment(w) ==
    /\ AnalyzeOnly
    /\ loaded[w] /\ acall.kind = "none" /\ nACalls < MaxAnalyzerCalls
    /\ nACalls' = nACalls + 1
    /\ \E cfg \in SentimentModels, text \in AnalyzerTexts, sample \in Samples :
         \E c \in Courses("sentiment", cfg, text, BackendScores, 0) :
            LET r == analyze_sentiment(cfg, text, c.backend, c.save_ok, c.data)
            IN /\ acall' = CallOf("sentiment", cfg, text, c, r)
               /\ ApplyStats(w, "sentiment", r.stats, sample)
    /\ UNCHANGED <<loaded, nLoads>>

\* extract_entities(text) on worker w's EntityProcessor.
CallEntities(w) ==
    /\ AnalyzeOnly
    /\ loaded[w] /\ acall.kind = "none" /\ nACalls < MaxAnalyzerCalls
    /\ nACalls' = nACalls + 1
    /\ \E cfg \in EntityExtractors, text \in AnalyzerTexts, sample \in Samples :
         \E c \in Courses("entity", cfg, text, BackendEntities, <<>>) :
            LET r == extract_entities(cfg, text, c.backend, c.save_ok, c.data)
            IN /\ acall' = CallOf("entity", cfg, text, c, r)
               /\ ApplyStats(w, "entity", r.stats, sample)
    /\ UNCHANGED <<loaded, nLoads>>

\* extract_keywords(text) on worker w's KeywordProcessor.
CallKeywords(w) ==
    /\ AnalyzeOnly
    /\ loaded[w] /\ acall.kind = "none" /\ nACalls < MaxAnalyzerCalls
    /\ nACalls' = nACalls + 1
    /\ \E cfg \in KeywordExtractors, text \in AnalyzerTexts, sample \in Samples :
         \E c \in Courses("keyword", cfg, text, BackendKeywords, <<>>) :
            LET r == extract_keywords(cfg, text, c.backend, c.save_ok, c.data)
            IN /\ acall' = CallOf("keyword", cfg, text, c, r)
               /\ ApplyStats(w, "keyword", r.stats, sample)
    /\ UNCHANGED <<loaded, nLoads>>

\* The caller has the result (or the exception): the call is over.
AnalyzerReturn ==
    /\ AnalyzeOnly
    /\ acall.kind # "none"
    /\ acall' = NoCall
    /\ UNCHANGED <<statsVars, nACalls>>

(***************************************************************************)
(* Functions applied on their own                                          *)
(***************************************************************************)
\* fcall records the one application of a behaviour: the function, its
\* input and what it gave.
NoFun == [name |-> "none"]

InitFun == fcall = NoFun

\* The articles given to the quality scorer.
QualityPieces ==
    {"bom", "crise.", "  ", "12/05/2024", "Ana Lima", "\"sim\"", "constituição",
     Paragraph}

ListOf(n) == [i \in 1..n |-> "x"]

QualityArticles ==
    [title : {"", "Crise", "Crise no mercado"},
     content : SeqsUpTo(QualityPieces, MaxPieces),
     author : {"", "Ana"},
     published_date : {Null, Some("2024-05-12")},
     url : {"", "/noticia/1"},
     keywords : {ListOf(0), ListOf(1), ListOf(11)},
     entities : {ListOf(0), ListOf(6)}]

\* For the spans of the fallback entity extractor a text is the sequence of
\* its characters.
CharsOf(word) ==
    CASE word = "Ana"  -> <<"A", "n", "a">>
      [] word = "Lima" -> <<"L", "i", "m", "a">>
      [] word = "bom"  -> <<"b", "o", "m">>

\* The whitespace between two words: a blank, two blanks, a line break.
Gaps == { <<" ">>, <<" ", " ">>, <<"\n">> }

RECURSIVE JoinWords(_, _)
JoinWords(words, gaps) ==
    IF words = <<>> THEN <<>>
    ELSE IF Len(words) = 1 THEN CharsOf(words[1])
    ELSE CharsOf(words[1]) \o gaps[1] \o JoinWords(Tail(words), Tail(gaps))

SpacedTexts ==
    UNION { { JoinWords(ws, gs) : ws \in [1..k -> {"Ana", "Lima", "bom"}],
                                  gs \in [1..(k - 1) -> Gaps] } :
            k \in 0..(MaxWords + 1) }

isspace(ch) == ch \in {" ", "\n"}
isupper(ch) == ch \in {"A", "L"}

\* text.split(): the maximal runs of characters that are not whitespace,
\* from position i on, cur being the run read so far.
RECURSIVE SplitFrom(_, _, _)
SplitFrom(text, i, cur) ==
    IF i > Len(text) THEN (IF cur = <<>> THEN <<>> ELSE <<cur>>)
    ELSE IF isspace(text[i])
         THEN (IF cur = <<>> THEN <<>> ELSE <<cur>>) \o SplitFrom(text, i + 1, <<>>)
         ELSE SplitFrom(text, i + 1, Append(cur, text[i]))

split(text) == SplitFrom(text, 1, <<>>)

\* text.find(sub): the lowest index at which sub occurs, or -1.
find(text, sub) ==
    LET at == {i \in 0..(Len(text) - Len(sub)) :
                  SubSeq(text, i + 1, i + Len(sub)) = sub}
    IN IF at = {} THEN -1 ELSE CHOOSE i \in at : \A j \in at : i <= j

\* EntityProcessor._fallback_entities with the spans it reports, from the
\* i-th word on; full_name is f"{word} {words[i+1]}".
RECURSIVE FallbackSpansFrom(_, _, _)
FallbackSpansFrom(text, words, i) ==
    IF i > Len(words) THEN <<>>
    ELSE (IF /\ isupper(words[i][1]) /\ Len(words[i]) > 2
             /\ i + 1 <= Len(words) /\ isupper(words[i + 1][1])
          THEN LET full_name == words[i] \o <<" ">> \o words[i + 1]
               IN << [text |-> full_name, type |-> "PERSON",
                      start |-> find(text, full_name),
                      end |-> find(text, full_name) + Len(full_name)] >>
          ELSE <<>>) \o FallbackSpansFrom(text, words, i + 1)

fallback_entities_spans(text) == FallbackSpansFrom(text, split(text), 1)

\* _fallback_entities(text)
FallbackEntities ==
    /\ fcall = NoFun
    /\ FunOnly
    /\ \E text \in SpacedTexts :
         fcall' = [name |-> "fallback_entities", text |-> text,
                   result |-> fallback_entities_spans(text)]

\* The href attributes and the stripped link texts of the anchors tried.
Hrefs == {"", "/", "/sobre", "/noticia/123", "/NEWS/9"}

\* Link texts of 200 and of 201 characters.
Text200 == Rep("xxxxxxxxxx", 20)
Text201 == Text200 \o "x"

LinkTexts ==
    {"", "T", "Home", "Nove letr", "Dez letras", "Sobre a empresa",
     "Homenagem ao autor", "LOGIN dos assinantes",
     "Long enough headline text here", Text200, Text201}

\* is_article_link(href, title)
IsArticleLink ==
    /\ fcall = NoFun
    /\ FunOnly
    /\ \E href \in Hrefs, title \in LinkTexts :
         fcall' = [name |-> "is_article_link", href |-> href, title |-> title,
                   result |-> is_article_link(href, title)]

\* calculate_quality_score(article)
QualityScore ==
    /\ fcall = NoFun
    /\ FunOnly
    /\ \E article \in QualityArticles :
         fcall' = [name |-> "calculate_quality_score", input |-> article,
                   result |-> quality_score(article)]

(***************************************************************************)
(* Specifications                                                          *)
(***************************************************************************)
\* Storage holds no article yet, or any set of articles with distinct urls.
InitSaveEmpty ==
    /\ InitSave
    /\ rows = NoRows

Init ==
    /\ InitCollect /\ InitSaveEmpty /\ InitProc /\ InitTaskPending /\ InitStats
    /\ InitRules /\ InitAnalyze /\ InitFun

InitAnyRows ==
    /\ InitCollect /\ InitSave /\ InitProc /\ InitTaskPending /\ InitStats
    /\ InitRules /\ InitAnalyze /\ InitFun

\* A ProcessingTask with any status is stored.
InitTasks ==
    /\ InitCollect /\ InitSaveEmpty /\ InitProc /\ InitTaskAny /\ InitStats
    /\ InitRules /\ InitAnalyze /\ InitFun

NextCollect ==
    \/ WebsiteCollect
    \/ APICollect
    \/ RSSStart
    \/ RSSFeed
    \/ RSSFinish

SpecCollect == Init /\ [][NextCollect]_vars

NextSave ==
    \/ \E c \in Conns : SaveBegin(c)
    \/ \E c \in Conns : SaveCheck(c)
    \/ \E c \in Conns : SaveCreate(c)
    \/ \E c \in Conns : SaveDeadlock(c)
    \/ \E c \in Conns : SaveExit(c)

SpecSave == InitAnyRows /\ [][NextSave]_vars

NextProc ==
    \/ \E a \in ArticleIds : LoadArticle(a)
    \/ \E a \in ArticleIds : ProcessArticle(a)
    \/ BatchStart
    \/ BatchItem
    \/ BatchEnd

SpecProc == Init /\ [][NextProc]_vars

NextStats ==
    \/ \E w \in Workers : Construct(w)
    \/ \E w \in Workers, k \in Kinds : Analyze(w, k)

SpecStats == Init /\ [][NextStats]_vars

NextRules ==
    \/ NewBaseProcessor
    \/ ApplyRulesStart
    \/ ApplyRuleStep
    \/ ApplyRulesReturn

SpecRules == Init /\ [][NextRules]_vars

\* The processors of one ProcessingManager.
AnalyzerWorkers == {"w1"}

NextAnalyze ==
    \/ \E w \in AnalyzerWorkers : Construct(w)
    \/ \E w \in AnalyzerWorkers : CallSentiment(w)
    \/ \E w \in AnalyzerWorkers : CallEntities(w)
    \/ \E w \in AnalyzerWorkers : CallKeywords(w)
    \/ AnalyzerReturn

SpecAnalyze == Init /\ [][NextAnalyze]_vars

\* process_batch with a ProcessingTask in storage.
NextTask ==
    \/ BatchStart
    \/ BatchItem
    \/ BatchEnd

SpecTask == InitTasks /\ [][NextTask]_vars

NextFunctions ==
    \/ QualityScore
    \/ IsArticleLink
    \/ FallbackEntities

SpecFunctions == Init /\ [][NextFunctions]_vars

Next ==
    \/ NextCollect \/ NextSave \/ NextProc \/ NextStats \/ NextRules
    \/ NextAnalyze \/ NextFunctions

Spec == Init /\ [][Next]_vars

(***************************************************************************)
(* Claims                                                                  *)
(***************************************************************************)
RunEnded == run.outcome \in {"returned", "raised"}

PrimaryFailed == run.primary \in {"exception", "http404", "http500"}

LastLog == collectionLog[Len(collectionLog)]

\* C1: every collect() invocation that has ended has returned (not raised)
\* and has written exactly one CollectionLog row; when the run failed
\* altogether (primary request failed, or no API endpoint) that row has status
\* 'error', zero articles and a non-empty error list.
C1_OneRecordPerRun ==
    RunEnded =>
        /\ run.outcome = "returned"
        /\ Len(collectionLog) = run.logsBefore + 1
        /\ (PrimaryFailed \/ ~run.endpoint) =>
               /\ LastLog.status = "error"
               /\ LastLog.articles_collected = 0
               /\ LastLog.errors # <<>>

\* C3: a Website or API run whose primary request failed (exception or HTTP
\* status >= 400) ends with a run record of status 'error'.
C3_PrimaryFailureIsError ==
    (RunEnded /\ run.kind \in {"website", "api"} /\ PrimaryFailed) =>
        /\ Len(collectionLog) = run.logsBefore + 1
        /\ LastLog.status = "error"

InSeq(x, s) == \E i \in 1..Len(s) : s[i] = x

\* C9: an RSS run with a failed feed and a feed with valid entries, once it
\* has ended, has iterated every feed and has returned the valid entries of
\* the feeds that did not fail.
C9_FeedFailureIsolated ==
    (RunEnded /\ run.kind = "rss" /\ run.failedFeeds >= 1 /\ run.expected # <<>>) =>
        /\ run.feedsDone = run.feedsTotal
        /\ run.outcome = "returned"
        /\ \A i \in 1..Len(run.expected) : InSeq(run.expected[i], run.returned)

\* C10: an RSS run with failed feeds or malformed entries, once it has ended,
\* has written a run record whose error list has one entry per failed feed and
\* per malformed entry.
C10_ErrorsRecorded ==
    (RunEnded /\ run.kind = "rss" /\ run.failedFeeds + run.malformed >= 1) =>
        /\ Len(collectionLog) = run.logsBefore + 1
        /\ Len(LastLog.errors) = run.failedFeeds + run.malformed

UrlsOf(arts) == {arts[i].url : i \in 1..Len(arts)}

AllDone == \A c \in Conns : spc[c] = "done"

\* The connections whose create of u was committed.
Winners(u) == {c \in Conns : txOutcome[c] = "committed" /\ u \in createdOk[c]}

Stored(c) == rows[CurUrl(c)] + pending[c][CurUrl(c)] > 0

Moved(c) == spc'[c] # spc[c] \/ idx'[c] # idx[c]

\* C8: no two stored articles ever share a url; a candidate whose url is
\* stored when it is checked is skipped (no row, not counted, the block stays
\* usable), and a create of a stored url adds no row and is not counted.
C8_DuplicateSkipped ==
    /\ [](\A u \in URLs : \A c \in Conns : rows[u] + pending[c][u] <= 1)
    /\ [][\A c \in Conns :
            /\ (spc[c] = "check" /\ ~needs_rollback[c] /\ Stored(c) /\ Moved(c)) =>
                   /\ idx'[c] = idx[c] + 1
                   /\ spc'[c] \in {"check", "exit"}
                   /\ pending'[c] = pending[c]
                   /\ saved_count'[c] = saved_count[c]
                   /\ needs_rollback'[c] = needs_rollback[c]
            /\ (spc[c] = "create" /\ Stored(c) /\ Moved(c)) =>
                   /\ pending'[c] = pending[c]
                   /\ saved_count'[c] = saved_count[c]]_vars

\* A call whose list names the same new url twice created it once, counted
\* it once and committed.
C8_Witness ==
    \E c \in Conns :
        /\ spc[c] = "done" /\ txOutcome[c] = "committed"
        /\ Len(todo[c]) = 2 /\ todo[c][1].url = todo[c][2].url
        /\ saved_count[c] = 1
        /\ rows[todo[c][1].url] = 1 /\ rows0[todo[c][1].url] = 0

\* C4: the relevance sub-score computed in a pass is the one of the keyword
\* and entity lists the analyzers produced in that pass.
C4_RelevanceFromThisPass ==
    pass.article # None =>
        pass.relevance = RelevanceOf(pass.keywords, pass.entities)

\* C5: a process_article call in which the analyzers and the quality scorer
\* completed returns the full result, not the empty one.
C5_ReturnsResult ==
    pass.completed => pass.returned = "full"

\* C6: when process_batch has returned, every article whose processing failed
\* was counted in errors and not in processed, and processed + errors = total.
C6_FailureCounted ==
    batch.state = "returned" =>
        /\ batch.errors = batch.failures
        /\ batch.processed = batch.total - batch.failures
        /\ batch.processed + batch.errors = batch.total

\* C7: the stored total_processed of every backend record has grown by the
\* number of analyses made with that backend.
C7_NoLostUpdate ==
    \A k \in Kinds : backendRow[k].total_processed = nAnalyses[k]

\* C11: an RSS run in which no feed failed and the first max_articles entries
\* of its feeds held valid and malformed entries, once it has ended, has
\* returned exactly the valid entries and has written one run record whose
\* status is 'success' or 'partial'.
C11_MalformedEntriesSkipped ==
    (RunEnded /\ run.kind = "rss" /\ run.failedFeeds = 0 /\ run.malformed >= 1
              /\ run.expected # <<>>) =>
        /\ all_articles = run.expected
        /\ run.outcome = "returned"
        /\ run.returned = run.expected
        /\ Len(collectionLog) = run.logsBefore + 1
        /\ LastLog.status \in {"success", "partial"}

\* C18: the candidate list a Website run has built for its caller, on the
\* selector path and on the heuristic path, has at most source.max_articles
\* elements.
C18_AtMostMaxArticles ==
    (RunEnded /\ run.kind = "website") =>
        /\ Len(run.articles) <= run.max_articles
        /\ Len(run.returned) <= run.max_articles

\* C19: an API run whose response was received with status 200 but holds no
\* list ends with one run record of status 'error' and a non-empty error
\* list, returns no candidate and saves none.
C19_NoListIsTerminalError ==
    (RunEnded /\ run.kind = "api" /\ run.endpoint /\ run.primary = "ok200"
              /\ ~run.hasList) =>
        /\ run.outcome = "returned"
        /\ run.returned = <<>>
        /\ Len(collectionLog) = run.logsBefore + 1
        /\ LastLog.status = "error"
        /\ LastLog.errors # <<>>

\* C20: every CollectionLog row the collectors have written with a status
\* other than 'success' has a non-empty error list.
C20_NonSuccessHasErrors ==
    \A i \in 1..Len(collectionLog) :
        collectionLog[i].status # "success" => collectionLog[i].errors # <<>>

\* A run whose primary request raised has written its 'error' row.
C20_Witness ==
    /\ RunEnded /\ run.primary = "exception"
    /\ Len(collectionLog) = run.logsBefore + 1
    /\ LastLog.status = "error"
    /\ LastLog.errors = <<"exc">>

\* The text the rule after the first n applications receives: the output of
\* the last of them that succeeded, or the text apply_rules was given.
LastGood(h, n, text) ==
    IF \E j \in 1..n : ~h[j].raised
    THEN h[CHOOSE j \in 1..n :
             ~h[j].raised /\ \A k \in (j + 1)..n : h[k].raised].output
    ELSE text

Count(x, s) == Cardinality({i \in 1..Len(s) : s[i] = x})

\* The rows of the table that are active and of a rule type of the pipeline.
ActiveRows ==
    {engine.table[i] : i \in Selected(engine.table, engine.pipeline)}

\* C12: apply_rules never raises; the rules it applies are active rules, in
\* ascending priority order; each receives the output of the last rule that
\* succeeded (the given text when there is none); a rule that raises leaves
\* the text as it was; the result is the output of the last rule that
\* succeeded, every active rule having been applied once; with no rule the
\* result is the given text.
C12_RulesInPriorityOrder ==
    LET h == ar.history
    IN /\ ar.state # "raised"
       /\ \A i \in 1..Len(h) :
            /\ h[i].rule \in ActiveRows
            /\ i > 1 => h[i - 1].rule.priority <= h[i].rule.priority
            /\ h[i].input = LastGood(h, i - 1, ar.text)
            /\ h[i].raised = apply_rule(h[i].rule, h[i].input).raised
            /\ h[i].output = IF h[i].raised THEN h[i].input
                             ELSE apply_rule(h[i].rule, h[i].input).text
       /\ ar.state = "returned" =>
            /\ ar.result = LastGood(h, Len(h), ar.text)
            /\ \A r \in RuleRows :
                 Count(r, [i \in 1..Len(h) |-> h[i].rule])
                     = IF r \in ActiveRows THEN Count(r, engine.table) ELSE 0
            /\ ActiveRows = {} => ar.result = ar.text

\* apply_rules has returned after a rule that raised and was skipped and a
\* later rule that changed the text, the rules being stored in the table in
\* the other order.
C12_Witness ==
    /\ ar.state = "returned" /\ Len(ar.history) = 2
    /\ ar.history[1].raised /\ ~ar.history[2].raised
    /\ ar.history[2].output # ar.text
    /\ ar.result = ar.history[2].output
    /\ engine.table[1] = ar.history[2].rule
    /\ engine.table[1].priority > engine.table[2].priority

\* The lists of active rules a pipeline can hold when an article is processed.
PipelineRuleLists == UNION {OrderByPriority(t, p) :
                              t \in SeqsUpTo(RuleRows, 1), p \in Pipelines}

\* C13: whatever active rules the pipeline holds, the text process_article
\* gave to the sentiment, entity and keyword analyzers is the article content
\* as apply_rules transforms it with those rules.
C13_RulesBeforeAnalyzers ==
    pass.article # None =>
        \A rules \in PipelineRuleLists :
            pass.text = apply_rules(rules, ArticleContent[pass.article])

AnalysisOf(a, t) == {r \in analysisRows : r.article = a /\ r.analysis_type = t}

Failed(c) == Tries(c.cfg, c.text) /\ (c.backend # "ok" \/ ~c.save_ok)

\* The result of the analyzer's fallback algorithm.
FallbackOf(k, text) ==
    IF k = "sentiment" THEN fallback_sentiment(text)
    ELSE IF k = "entity" THEN fallback_entities(text)
    ELSE fallback_keywords(text)

\* The configured filters of the analyzer applied to a result.
Filtered(k, cfg, result) ==
    IF k = "sentiment" THEN result
    ELSE IF k = "entity" THEN FilterEntities(cfg, result)
    ELSE FilterKeywords(cfg, result)

\* C14 as stated: no analyzer call raises, and a call whose backend was not
\* available or raised, or whose statistics could not be saved, returns the
\* fallback's result on the same text.
C14_FallbackOnFailure ==
    acall.kind # "none" =>
        /\ ~acall.raised
        /\ Failed(acall) => acall.result = FallbackOf(acall.kind, acall.text)

\* C14 as amended: no analyzer call raises; a call whose backend raised or
\* whose statistics could not be saved returns the fallback's result on the
\* same text; a call whose backend library could not be imported returns the
\* fallback's result on the same text after the analyzer's configured
\* filters.
C14_FallbackOnFailureFiltered ==
    acall.kind # "none" =>
        /\ ~acall.raised
        /\ Failed(acall) =>
               acall.result =
                   IF acall.backend = "raises" \/ ~acall.save_ok
                   THEN FallbackOf(acall.kind, acall.text)
                   ELSE Filtered(acall.kind, acall.cfg,
                                 FallbackOf(acall.kind, acall.text))

\* An entity call whose backend returned entities and whose save() raised
\* has returned the fallback's entity instead.
C14_Witness ==
    /\ acall.kind = "entity" /\ Tries(acall.cfg, acall.text)
    /\ acall.backend = "ok" /\ ~acall.save_ok
    /\ acall.data # <<>>
    /\ acall.result = <<Entity(<<"Ana", "Ana">>, "PERSON")>>

\* C15: with an extractor that has a non-empty entity_types list, every
\* entity extract_entities returns has a type of that list.
C15_OnlyAllowedTypes ==
    (acall.kind = "entity" /\ acall.cfg.present /\ acall.cfg.entity_types # {}) =>
        \A i \in 1..Len(acall.result) :
            acall.result[i].type \in acall.cfg.entity_types

\* C16: with a keyword extractor, every list extract_keywords returns holds
\* only keywords of at least min_keyword_length characters that are not stop
\* words, has at most max_keywords elements and is in descending order of
\* score.
C16_KeywordsFiltered ==
    (acall.kind = "keyword" /\ acall.cfg.present) =>
        /\ \A i \in 1..Len(acall.result) :
             /\ TextLen(acall.result[i].text) >= acall.cfg.min_keyword_length
             /\ acall.result[i].text \notin acall.cfg.stop_words
        /\ Len(acall.result) <= acall.cfg.max_keywords
        /\ \A i \in 1..(Len(acall.result) - 1) :
             acall.result[i].score >= acall.result[i + 1].score

\* The status changes a ProcessingTask may make.
TaskMoveAllowed(from, to) ==
    \/ from = "pending" /\ to \in {"running", "cancelled"}
    \/ from = "running" /\ to \in {"completed", "failed", "cancelled"}

\* C21: every change of a ProcessingTask's status is pending -> running,
\* running -> completed, failed or cancelled, or pending -> cancelled; no
\* step moves a task from pending to completed or failed, out of a terminal
\* status or back to pending.
C21_TaskStatusMoves ==
    [][taskRow'.status # taskRow.status =>
           TaskMoveAllowed(taskRow.status, taskRow'.status)]_vars

\* process_batch has processed a batch and returned while a pending task was
\* stored, and the task is still pending.
C21_Witness ==
    /\ batch.state = "returned" /\ batch.total = MaxBatchLen
    /\ batch.processed = batch.total
    /\ taskRow.status = "pending"

\* C22: an analyzer call on the empty text returns score 0, label 'neutral',
\* confidence 0 (sentiment) or the empty list (entities, keywords), with or
\* without a configured backend, and leaves the backend statistics, stored
\* and held by the processor, as they were.
C22_EmptyText ==
    [][(acall.kind = "none" /\ acall'.kind # "none" /\ acall'.text = <<>>) =>
           /\ ~acall'.raised
           /\ acall'.result = IF acall'.kind = "sentiment"
                              THEN Sentiment(0, "neutral", 0) ELSE <<>>
           /\ backendRow' = backendRow
           /\ procCopy' = procCopy
           /\ nAnalyses' = nAnalyses]_vars

\* analyze_sentiment has returned for the empty text with a configured
\* backend.
C22_Witness ==
    /\ acall.kind = "sentiment" /\ acall.text = <<>>
    /\ acall.cfg.present /\ acall.cfg.model_type = "vader"
    /\ acall.result.confidence = 0
    /\ backendRow["sentiment"].total_processed = 0

\* The number of words of a lexicon that occur in the text.
LexiconCount(lexicon, text) ==
    Cardinality({w \in lexicon :
                   \E i \in 1..Len(text) :
                       w \in PositiveIn(Lower(text[i])) \cup NegativeIn(Lower(text[i]))})

\* The call returned what the fallback sentiment analyzer gives for a
\* non-empty text: no backend is configured, or the configured one is of no
\* known type, or it failed.
SentimentByFallback(c) ==
    /\ c.kind = "sentiment" /\ c.text # <<>>
    /\ \/ ~c.cfg.present
       \/ c.cfg.model_type = "custom"
       \/ c.backend # "ok"
       \/ ~c.save_ok

\* C23: for a non-empty text the fallback sentiment analyzer gives confidence
\* 0.5 and exactly (0.3, positive) when more positive than negative lexicon
\* words occur in the text, (-0.3, negative) when more negative than positive
\* ones occur, and (0, neutral) when as many of each occur.
C23_FallbackSentiment ==
    SentimentByFallback(acall) =>
        LET p == LexiconCount(positive_words, acall.text)
            n == LexiconCount(negative_words, acall.text)
            r == acall.result
        IN /\ r.confidence = 50
           /\ p > n => (r.score = 30 /\ r.label = "positive")
           /\ n > p => (r.score = 0 - 30 /\ r.label = "negative")
           /\ p = n => (r.score = 0 /\ r.label = "neutral")

\* With no backend configured, a text with one positive and one negative
\* lexicon word was analysed as neutral.
C23_Witness ==
    /\ acall.kind = "sentiment" /\ ~acall.cfg.present
    /\ acall.text = <<"crise", "bom">>
    /\ acall.result = Sentiment(0, "neutral", 50)

\* C24: for every article, the quality scorer does not raise, each of the
\* four sub-scores is in [0,1], the weights sum to 1, the overall score is
\* the weighted sum of the sub-scores and is in [0,1], and readability is 0
\* for an empty content and for a content without words.
C24_QualityInRange ==
    fcall.name = "calculate_quality_score" =>
        LET q == fcall.result
            content == fcall.input.content
        IN /\ ~q.raised
           /\ \A k \in DOMAIN weights : q[k] \in 0..100
           /\ weights.readability + weights.completeness
                + weights.accuracy + weights.relevance = 100
           /\ q.overall_score = 20 * q.readability + 30 * q.completeness
                                + 25 * q.accuracy + 25 * q.relevance
           /\ q.overall_score \in 0..10000
           /\ (content = <<>> \/ SumField(content, "words") = 0) =>
                  q.readability = 0

\* An article whose content is blank only was scored: readability 0, and an
\* overall score above 0 from its other fields.
C24_Witness ==
    /\ fcall.name = "calculate_quality_score"
    /\ fcall.input.content = <<"  ">>
    /\ ~fcall.result.raised
    /\ fcall.result.readability = 0
    /\ fcall.result.overall_score > 0

\* C25: an analysis that records the sample s adds exactly 1 to
\* total_processed of the record the processor holds and sets its
\* avg_processing_time to s when no average was recorded before, and to
\* (old + s) / 2 when one was, a recorded average of 0 included.
C25_RunningMean ==
    [][\A w \in Workers, k \in Kinds :
          procCopy'[w][k] # procCopy[w][k] /\ nAnalyses'[k] = nAnalyses[k] + 1 =>
              LET old == procCopy[w][k]
                  new == procCopy'[w][k]
              IN /\ new.total_processed = old.total_processed + 1
                 /\ \E s \in Samples :
                      new.avg_processing_time =
                          IF old.avg_processing_time = Null THEN Some(s)
                          ELSE Some((old.avg_processing_time[1] + s) \div 2)]_vars

NonEmpty(c) == c.title # "" /\ c.url # ""

\* C26: every candidate a collector run has gathered, hands to save_articles
\* or returns has a non-empty title and a non-empty url, whichever variant
\* (heuristic or configured website extraction, RSS entries, API items) made
\* it.
C26_CandidatesHaveTitleAndUrl ==
    /\ \A i \in 1..Len(all_articles) : NonEmpty(all_articles[i])
    /\ \A i \in 1..Len(run.articles) : NonEmpty(run.articles[i])
    /\ \A i \in 1..Len(run.returned) : NonEmpty(run.returned[i])

\* An RSS run met entries that the parser dropped and still gathered
\* candidates for save_articles.
C26_Witness ==
    /\ run.kind = "rss" /\ cpc = "idle"
    /\ run.malformed > 0
    /\ Len(run.articles) > 0

\* (a) the href contains one of the article-path keywords
HrefHasArticlePath(href) ==
    \E i \in 1..Len(article_keywords) : In(article_keywords[i], lower(href))

\* (b) the link text has between 10 and 200 characters inclusive and contains
\* none of the navigation words
TextLooksLikeHeadline(title) ==
    /\ Len(title) >= 10 /\ Len(title) <= 200
    /\ \A i \in 1..Len(nav_keywords) : ~In(nav_keywords[i], lower(title))

\* C27 as stated: is_article_link accepts an anchor exactly when (a) or (b),
\* whatever its link text in case (a).
C27_AcceptsIffKeywordOrHeadline ==
    fcall.name = "is_article_link" =>
        (fcall.result <=> (HrefHasArticlePath(fcall.href)
                           \/ TextLooksLikeHeadline(fcall.title)))

\* C27, amended: is_article_link accepts an anchor exactly when its href and
\* its link text are both non-empty and (a) or (b) holds.
C27_AcceptsNonEmptyIffKeywordOrHeadline ==
    fcall.name = "is_article_link" =>
        (fcall.result <=> /\ fcall.href # "" /\ fcall.title # ""
                          /\ \/ HrefHasArticlePath(fcall.href)
                             \/ TextLooksLikeHeadline(fcall.title))

\* An anchor whose href has an article path and whose link text is empty was
\* rejected.
C27_Witness ==
    /\ fcall.name = "is_article_link"
    /\ fcall.href = "/noticia/123" /\ fcall.title = ""
    /\ ~fcall.result

\* Storage holds everything the pass that just ended wrote for its article.
PassStored(a, p, row, an, q) ==
    /\ row[a] = p.written
    /\ \A i \in 1..Len(ResultKeys) :
          [article |-> a, analysis_type |-> ResultKeys[i],
           result |-> p.results[ResultKeys[i]]] \in an
    /\ q[a] = Some(p.results.quality)

\* C28: a process_article call leaves storage either with the article's
\* updated fields, every Analysis row and the QualityScore row of that pass,
\* or exactly as it was; and it sets the stored status to 'analyzed' only
\* together with the results of the pass.
C28_AllOrNothing ==
    [][nPasses' = nPasses + 1 =>
          LET a == pass'.article
          IN /\ \/ PassStored(a, pass', articleRow', analysisRows', qualityRows')
                \/ /\ articleRow' = articleRow
                   /\ analysisRows' = analysisRows
                   /\ qualityRows' = qualityRows
             /\ (articleRow'[a].status = "analyzed"
                    /\ articleRow[a].status # "analyzed")
                 => PassStored(a, pass', articleRow', analysisRows', qualityRows')]_vars

\* A pass entered the atomic block, saved the article as 'analyzed' and wrote
\* an Analysis row inside it, and storage shows none of it.
C28_Witness ==
    /\ pass.entry = "entered"
    /\ pass.written.status = "analyzed"
    /\ pass.analysesWritten >= 1
    /\ articleRow[pass.article].status = "collected"
    /\ \A r \in analysisRows : r.article # pass.article
    /\ qualityRows[pass.article] = Null

\* C29: a process_article call that returns the empty result leaves the
\* article object it was given as it was before the call.
C29_ObjectUntouchedOnFailure ==
    [][(nPasses' = nPasses + 1 /\ pass'.returned = "empty") =>
          /\ articleObj'[pass'.article] = articleObj[pass'.article]
          /\ articleObj'[pass'.article] = pass'.before]_vars

\* text[start:end] of Python, for start and end that may be negative.
Slice(text, start, end) ==
    LET norm(i) == IF i < 0 THEN (IF Len(text) + i < 0 THEN 0 ELSE Len(text) + i)
                   ELSE Min(i, Len(text))
    IN SubSeq(text, norm(start) + 1, norm(end))

\* C30: every entity the fallback entity extractor returns has a valid span:
\* 0 <= start <= end <= len(text) and text[start:end] is the entity's text,
\* also when several blanks or a line break separate the two words.
C30_ValidSpans ==
    fcall.name = "fallback_entities" =>
        \A i \in 1..Len(fcall.result) :
            LET e == fcall.result[i]
            IN /\ 0 <= e.start /\ e.start <= e.end /\ e.end <= Len(fcall.text)
               /\ Slice(fcall.text, e.start, e.end) = e.text

====
